---------------------------- MODULE Spec2Model ----------------------------
(***************************************************************************)
(* A model of the negotiation core of policyagent:                         *)
(*   src/backend/main.py  NegotiationSpace (the bulletin board),           *)
(*                        DecentralizedAgent, run_negotiation (the driver) *)
(*                                                                         *)
(*   src/backend/app.py   websocket_negotiate (the handler of              *)
(*                        /ws/negotiate)                                   *)
(*                                                                         *)
(* The specifications share the variables:                                 *)
(*   SpecProposals    sequences of post_proposal calls on a new board      *)
(*   SpecEvaluations  sequences of post_evaluation calls on a new board    *)
(*   SpecEvaluate     sequences of evaluate_proposal calls on a new board  *)
(*   Spec             one run of run_negotiation on a new board, with the  *)
(*                    evaluation threads of a round interleaved            *)
(*   SpecScenario     Spec on the agents that                              *)
(*                    create_scenario_from_preferences builds              *)
(*   SpecFair         Spec with at most MaxFairRounds rounds, under weak   *)
(*                    fairness of the driver and its threads               *)

(*   SpecRegression   the regression test of run_negotiation on the        *)
(*                    averages of two rounds of up to MaxAgents agents     *)
(*   SpecWebsocket    one connection to /ws/negotiate                      *)
(*   SpecStream       the streaming loop of the handler, with a thread     *)
(*                    that calls on_update                                 *)
(***************************************************************************)
EXTENDS Integers, Sequences, FiniteSets, TLC

(***************************************************************************)
(* Python floats.  sum(all_scores) / len(all_scores) is a true division of *)
(* two ints and yields the IEEE-754 double nearest to the quotient;        *)
(* prev_avg_satisfaction - avg_score is a double subtraction; 0.2 is the   *)
(* double nearest to 1/5.  A double is modelled by its sign, its exponent  *)
(* and its MantBits mantissa bits (most significant first, the first one   *)
(* 1): the value is 0.b1 b2 ... b53 (binary) * 2^exp.  Zero has the empty  *)
(* mantissa.  Rounding is to nearest, ties to even.                        *)
(***************************************************************************)
MantBits == 53

FloatZero == [neg |-> FALSE, exp |-> 0, mant |-> <<>>]

\* the number of binary digits of a natural number
BitLength(q) == Cardinality({i \in 0..30 : 2^i <= q})

\* the binary digits of a natural number, most significant first
IntBits(q) == [i \in 1..BitLength(q) |-> (q \div 2^(BitLength(q) - i)) % 2]

\* 2^i mod b for 0 <= i < 116 and 0 < b < 2^15, without leaving 32 bits
PowTwoMod(i, b) ==
    LET a29 == 2^29 % b
        hi  == i \div 29
        ahi == IF hi = 0 THEN 1 % b
               ELSE IF hi = 1 THEN a29
               ELSE IF hi = 2 THEN (a29 * a29) % b
               ELSE (((a29 * a29) % b) * a29) % b
    IN  (ahi * (2^(i % 29) % b)) % b

\* the remainder left after i binary digits of the long division of r by b
\* (0 <= r < b): r * 2^i mod b
FracRem(r, b, i) == (r * PowTwoMod(i, b)) % b

\* the first k binary digits of r/b after the point
FracBits(r, b, k) == [i \in 1..k |-> (2 * FracRem(r, b, i - 1)) \div b]

\* the number of zeros before the first 1 (the length, when there is no 1)
LeadingZeros(bits) ==
    LET ones == {i \in 1..Len(bits) : bits[i] = 1}
    IN  IF ones = {} THEN Len(bits)
        ELSE (CHOOSE i \in ones : \A j \in ones : i <= j) - 1

Zeros(k) == [i \in 1..k |-> 0]

AnyOne(bits) == \E i \in 1..Len(bits) : bits[i] = 1

\* bits + 1, same length; all ones wraps to all zeros
BitsInc(bits) ==
    [i \in 1..Len(bits) |->
        IF \A j \in (i + 1)..Len(bits) : bits[j] = 1
        THEN 1 - bits[i] ELSE bits[i]]

\* Round a positive number given by its digits 0.bits * 2^e (bits may start
\* with zeros and be of any length; sticky tells that non-zero digits follow
\* bits) to the nearest double, ties to even.
FloatRound(neg, e, bits, sticky) ==
    LET z    == LeadingZeros(bits)
        norm == SubSeq(bits, z + 1, Len(bits)) \o Zeros(MantBits + 1)
        m    == SubSeq(norm, 1, MantBits)
        g    == norm[MantBits + 1]
        rest == sticky \/ AnyOne(SubSeq(norm, MantBits + 2, Len(norm)))
        up   == g = 1 /\ (rest \/ m[MantBits] = 1)
        inc  == BitsInc(m)
    IN  IF z = Len(bits) THEN FloatZero
        ELSE IF ~up THEN [neg |-> neg, exp |-> e - z, mant |-> m]
        ELSE IF inc[1] = 0
             THEN [neg |-> neg, exp |-> e - z + 1,
                   mant |-> <<1>> \o Zeros(MantBits - 1)]
        ELSE [neg |-> neg, exp |-> e - z, mant |-> inc]

\* Python's a / b for ints a >= 0, b > 0
FloatDiv(a, b) ==
    LET ib == IntBits(a \div b)
        k  == MantBits + 34
    IN  FloatRound(FALSE, Len(ib), ib \o FracBits(a % b, b, k),
                   FracRem(a % b, b, k) # 0)

\* lexicographic order of two digit sequences of the same length
BitsLess(x, y) ==
    \E i \in 1..Len(x) :
        /\ x[i] < y[i]
        /\ \A j \in 1..(i - 1) : x[j] = y[j]

\* |x| < |y|
MagLess(x, y) ==
    IF y.mant = <<>> THEN FALSE
    ELSE IF x.mant = <<>> THEN TRUE
    ELSE IF x.exp # y.exp THEN x.exp < y.exp
    ELSE BitsLess(x.mant, y.mant)

\* x - y for digit sequences of the same length with x >= y: digit i
\* borrows when the digits below it of x are less than those of y
BitsSub(x, y) ==
    [i \in 1..Len(x) |->
        IF BitsLess(SubSeq(x, i + 1, Len(x)), SubSeq(y, i + 1, Len(x)))
        THEN (x[i] - y[i] + 1) % 2
        ELSE (x[i] - y[i] + 2) % 2]

\* |x| - |y| for |x| >= |y| > 0, rounded
MagSub(neg, x, y) ==
    LET d  == x.exp - y.exp
        xb == x.mant \o Zeros(d)
        yb == Zeros(d) \o y.mant
    IN  FloatRound(neg, x.exp, BitsSub(xb, yb), FALSE)

\* Python's x - y for doubles x >= 0 and y >= 0
FloatSub(x, y) ==
    IF y.mant = <<>> THEN x
    ELSE IF x.mant = <<>> THEN [y EXCEPT !.neg = TRUE]
    ELSE IF MagLess(x, y) THEN MagSub(TRUE, y, x)
    ELSE MagSub(FALSE, x, y)

\* Python's x > y for a double x and a double y > 0
FloatGreater(x, y) == ~x.neg /\ MagLess(y, x)

(***************************************************************************)
(* The regression test of run_negotiation on the averages of two rounds:   *)
(*     (prev_avg_satisfaction - avg_score) > 0.2                           *)
(* An average is kept as the pair <<sum(all_scores), len(all_scores)>> it  *)
(* is the quotient of; prev_avg_satisfaction starts as the int 0, <<0, 1>>.*)
(***************************************************************************)
ToleranceNum == 1
ToleranceDen == 5

PyAvg(all_scores_sum, all_scores_len) == <<all_scores_sum, all_scores_len>>

AvgFloat(avg) == FloatDiv(avg[1], avg[2])

\* a variant of RegressionDrop with a tolerance of one half
RegressionDropHalf(prev_avg, avg_score) ==
    FloatGreater(FloatSub(AvgFloat(prev_avg), AvgFloat(avg_score)),
                 FloatDiv(1, 2))

RegressionDrop(prev_avg, avg_score) ==
    FloatGreater(FloatSub(AvgFloat(prev_avg), AvgFloat(avg_score)),
                 FloatDiv(ToleranceNum, ToleranceDen))

(***************************************************************************)
(* Values                                                                  *)
(***************************************************************************)
None == <<>>                        \* Python's None
EmptyDict == <<>>                   \* {}

\* float(amount) in post_proposal: amounts arrive as text; "n/a" stands for
\* every text float() raises ValueError on.  Amounts are in thousands.
BadAmount == "n/a"
IsNumeric(amount) == amount \in {"1", "2"}
ToFloat(amount) == IF amount = "1" THEN 1 ELSE 2

DictSet(d, k, v) == [x \in DOMAIN d \cup {k} |-> IF x = k THEN v ELSE d[x]]

AgentNames == {"Policy_Maker", "Healthcare_Worker", "Business_Owner"}

(***************************************************************************)
(* NegotiationSpace: the bulletin board                                    *)
(*   proposals      the list of Proposal records, in posting order         *)
(*   evaluations    proposal id -> (agent name -> Evaluation)              *)
(*   current_round                                                         *)
(* A Proposal keeps the fields the board computes (id, author, round,      *)
(* side_payments); base_project, modifications, compensation, commitments, *)
(* total_cost and reasoning are copied from the caller's data unchanged    *)
(* and read by no decision of the driver.  An Evaluation keeps agent_name, *)
(* proposal_id and satisfaction_score.                                     *)
(***************************************************************************)
VARIABLES proposals, evaluations, current_round,
          last_call                 \* history: the last method call on the board

board == <<proposals, evaluations, current_round>>

RECURSIVE ParseSidePayments(_)
\* post_proposal, lines 72-83: the dict built from the list of payment
\* entries; an entry whose amount float() rejects is skipped, a later
\* entry for the same (from, to) replaces the earlier one
ParseSidePayments(entries) ==
    IF entries = <<>> THEN EmptyDict
    ELSE LET n     == Len(entries)
             e     == entries[n]
             first == ParseSidePayments(SubSeq(entries, 1, n - 1))
         IN  IF ~IsNumeric(e.amount) THEN first
             ELSE DictSet(first, <<e.from, e.to>>, ToFloat(e.amount))

\* a variant of ProposalId that counts from one
ProposalIdFromOne(props) == Len(props) + 1

\* post_proposal, line 70: proposal_id = len(self.proposals)
ProposalId(props) == Len(props)

\* a variant of NewProposal that stamps the round after the current one
NewProposalNextRound(props, round, author, proposal_data) ==
    [id            |-> ProposalId(props),
     author        |-> author,
     round         |-> round + 1,
     side_payments |-> IF "side_payments" \notin DOMAIN proposal_data
                       THEN EmptyDict
                       ELSE ParseSidePayments(proposal_data.side_payments)]

\* the Proposal that post_proposal builds
NewProposal(props, round, author, proposal_data) ==
    [id            |-> ProposalId(props),
     author        |-> author,
     round         |-> round,
     side_payments |-> IF "side_payments" \notin DOMAIN proposal_data
                       THEN EmptyDict
                       ELSE ParseSidePayments(proposal_data.side_payments)]

\* a variant of post_proposal that appends the proposal twice
post_proposal_twice(props, round, author, proposal_data) ==
    Append(Append(props, NewProposal(props, round, author, proposal_data)),
           NewProposal(props, round, author, proposal_data))

\* post_proposal: the new list of proposals; it returns ProposalId(props)
post_proposal(props, round, author, proposal_data) ==
    Append(props, NewProposal(props, round, author, proposal_data))

\* post_evaluation, line 103
HasEvaluations(evals, proposal_id) == proposal_id \in DOMAIN evals

\* post_evaluation, line 104
CreateEvaluations(evals, proposal_id) == DictSet(evals, proposal_id, EmptyDict)

\* a variant of InsertEvaluation that keeps an evaluation already recorded
InsertEvaluationKeepFirst(evals, evaluation) ==
    [evals EXCEPT ![evaluation.proposal_id] =
        IF evaluation.agent_name \in DOMAIN @ THEN @
        ELSE DictSet(@, evaluation.agent_name, evaluation)]

\* post_evaluation, line 105
InsertEvaluation(evals, evaluation) ==
    [evals EXCEPT ![evaluation.proposal_id] =
        DictSet(@, evaluation.agent_name, evaluation)]

\* post_evaluation run without interruption
post_evaluation(evals, evaluation) ==
    InsertEvaluation(IF HasEvaluations(evals, evaluation.proposal_id) THEN evals
                     ELSE CreateEvaluations(evals, evaluation.proposal_id),
                     evaluation)

\* a variant of get_latest_proposal that gives the oldest proposal
get_first_proposal(props) == IF props = <<>> THEN None ELSE props[1]

get_latest_proposal(props) == IF props = <<>> THEN None ELSE props[Len(props)]

\* evals.get(agent, default_eval).satisfaction_score, the default scoring 0
ScoreOrDefault(evals_of, agent) ==
    IF agent \in DOMAIN evals_of THEN evals_of[agent].satisfaction_score ELSE 0

check_unanimous_acceptance(evals, proposal_id, required_agents, threshold) ==
    IF proposal_id \notin DOMAIN evals THEN FALSE
    ELSE \A i \in 1..Len(required_agents) :
            ScoreOrDefault(evals[proposal_id], required_agents[i]) >= threshold

\* get_feedback_for_proposal: agent name -> score of the evaluations recorded
\* for the proposal ("satisfied" is score >= 4)
get_feedback_for_proposal(evals, proposal_id) ==
    IF proposal_id \notin DOMAIN evals THEN EmptyDict
    ELSE [a \in DOMAIN evals[proposal_id] |->
             evals[proposal_id][a].satisfaction_score]

RECURSIVE SumPayments(_, _)
\* the sum of the amounts of the side payments under the keys given
SumPayments(side_payments, keys) ==
    IF keys = {} THEN 0
    ELSE LET k == CHOOSE x \in keys : TRUE
         IN  side_payments[k] + SumPayments(side_payments, keys \ {k})

\* validate_side_payments, lines 156-161: payer -> total paid
AgentOutflows(side_payments) ==
    [a \in {k[1] : k \in DOMAIN side_payments} |->
        SumPayments(side_payments, {k \in DOMAIN side_payments : k[1] = a})]

\* a variant of validate_side_payments that rejects a payer it does not know
validate_side_payments_known(proposal, agents_dict) ==
    IF DOMAIN proposal.side_payments = {} THEN TRUE
    ELSE LET agent_outflows == AgentOutflows(proposal.side_payments)
         IN  \A agent_name \in DOMAIN agent_outflows :
                /\ agent_name \in DOMAIN agents_dict
                /\ ~(agent_outflows[agent_name] > agents_dict[agent_name])

\* a variant of validate_side_payments that rejects a total equal to the budget
validate_side_payments_below(proposal, agents_dict) ==
    IF DOMAIN proposal.side_payments = {} THEN TRUE
    ELSE LET agent_outflows == AgentOutflows(proposal.side_payments)
         IN  \A agent_name \in DOMAIN agent_outflows :
                agent_name \in DOMAIN agents_dict
                    => agent_outflows[agent_name] < agents_dict[agent_name]

\* validate_side_payments: the boolean of the pair it returns; agents_dict
\* maps an agent's name to its max_side_payment_budget
validate_side_payments(proposal, agents_dict) ==
    IF DOMAIN proposal.side_payments = {} THEN TRUE
    ELSE LET agent_outflows == AgentOutflows(proposal.side_payments)
         IN  \A agent_name \in DOMAIN agent_outflows :
                agent_name \in DOMAIN agents_dict
                    => ~(agent_outflows[agent_name] > agents_dict[agent_name])

(***************************************************************************)
(* run_negotiation(developer, neighbors, space, max_rounds): its arguments *)
(* and local variables.  agents[1] is the developer, the others are the    *)
(* neighbors; an agent is its name and its max_side_payment_budget (in     *)
(* thousands).                                                             *)
(***************************************************************************)
VARIABLES agents, max_rounds,
          pc,                       \* where run_negotiation stands
          round_num,                \* iterations of the round loop begun
          current_proposal,
          prev_avg_satisfaction,
          workers,                  \* the evaluate_proposal call of each agent
          all_scores,
          should_continue,          \* what should_continue_negotiation returned
          result, outcome,          \* the value returned and the way it ended
          calls,                    \* history: calls made on the agents
          seen                      \* history: what the run has met

driver == <<agents, max_rounds, pc, round_num, current_proposal,
            prev_avg_satisfaction, workers, all_scores, should_continue,
            result, outcome, calls, seen>>

NoCalls == [evaluate_proposal |-> <<>>, should_continue_negotiation |-> 0,
            synthesize_proposal |-> 0]

\* all_satisfied  a round whose scores were all at least 4
\* regression     a round on which the regression test fired
\* stop           should_continue_negotiation returned False
\* over_budget    a synthesized proposal with an agent paying above its budget
\* failure        an exception in evaluate_proposal, in synthesize_proposal
\*                or in should_continue_negotiation
SeenNothing == [all_satisfied |-> FALSE, regression |-> FALSE, stop |-> FALSE,
                over_budget |-> FALSE, failure |-> FALSE]

\* run_negotiation is not running
DriverIdle ==
    /\ agents = <<>>
    /\ max_rounds = 0
    /\ pc = "idle"
    /\ round_num = 0
    /\ current_proposal = None
    /\ prev_avg_satisfaction = PyAvg(0, 1)
    /\ workers = <<>>
    /\ all_scores = <<>>
    /\ should_continue = None
    /\ result = None
    /\ outcome = "idle"
    /\ calls = NoCalls
    /\ seen = SeenNothing

(***************************************************************************)
(* src/backend/app.py, websocket_negotiate: the handler of /ws/negotiate   *)
(*   request          what the client sent as its first message            *)
(*   connected        the client is still there                            *)
(*   ws_pc            where the handler's coroutine is                     *)
(*   task             the state of negotiation_task, the future of run_neg *)
(*   notified         the updates on_update has been called with           *)
(*   ready            the put_nowait callbacks call_soon_threadsafe has    *)
(*                    scheduled on the event loop, oldest first            *)
(*   update_queue     the asyncio.Queue                                    *)
(*   pending_updates  the list of the streaming loop                       *)
(*   for_index        the position of the iterator of the for loop over    *)
(*                    pending_updates                                      *)
(*   sent             the messages sent to the client, oldest first        *)
(***************************************************************************)
VARIABLES request, connected, ws_pc, task, notified, ready, update_queue,
          pending_updates, for_index, sent

handler == <<request, connected, ws_pc, task, notified, ready, update_queue,
             pending_updates, for_index, sent>>

\* no handler is running
HandlerIdle ==
    /\ request = "none"
    /\ connected = FALSE
    /\ ws_pc = "idle"
    /\ task = "none"
    /\ notified = <<>>
    /\ ready = <<>>
    /\ update_queue = <<>>
    /\ pending_updates = <<>>
    /\ for_index = 0
    /\ sent = <<>>

(***************************************************************************)
(* Calls of the board's methods from outside a negotiation.                *)
(* SpecProposals posts proposals, SpecEvaluations posts evaluations; the   *)
(* queries (check_unanimous_acceptance, validate_side_payments, ...) do    *)
(* not change the board and are applied to every state reached.            *)
(***************************************************************************)
MaxProposals == 2                   \* proposals posted in SpecProposals
MaxEntries == 2                     \* payment entries in one proposal's data
MaxPid == 1                         \* proposal ids evaluated in SpecEvaluations

Authors == {"Policy_Maker", "Healthcare_Worker"}

PaymentPairs == {<<"Healthcare_Worker", "Policy_Maker">>,
                 <<"Healthcare_Worker", "Business_Owner">>,
                 <<"Business_Owner", "Healthcare_Worker">>}

PaymentEntries ==
    {[from |-> p[1], to |-> p[2], amount |-> a] :
        p \in PaymentPairs, a \in {"1", "2", BadAmount}}

\* proposal_data with and without the "side_payments" key
ProposalData ==
    {[base_project |-> "project"]} \cup
    {[base_project |-> "project", side_payments |-> entries] :
        entries \in UNION {[1..n -> PaymentEntries] : n \in 0..MaxEntries}}

EvalScores == {3, 4, 5}

EvaluationInputs ==
    [agent_name : {"Policy_Maker", "Healthcare_Worker"},
     proposal_id : 0..MaxPid,
     satisfaction_score : EvalScores]

NoCall == [op |-> "none", ret |-> -1, arg |-> None, old |-> None]

\* the evaluation recorded for (proposal_id, agent_name), None when absent
Recorded(evals, proposal_id, agent_name) ==
    IF proposal_id \in DOMAIN evals /\ agent_name \in DOMAIN evals[proposal_id]
    THEN evals[proposal_id][agent_name] ELSE None

\* NegotiationSpace()
NewBoard ==
    /\ proposals = <<>>
    /\ evaluations = EmptyDict
    /\ current_round = 0

InitBoard ==
    /\ NewBoard
    /\ last_call = NoCall
    /\ DriverIdle
    /\ HandlerIdle

PostProposal(author, proposal_data) ==
    /\ Len(proposals) < MaxProposals
    /\ proposals' = post_proposal(proposals, current_round, author, proposal_data)
    /\ last_call' = [op |-> "post_proposal", ret |-> ProposalId(proposals),
                     arg |-> None, old |-> None]
    /\ UNCHANGED <<evaluations, current_round, driver, handler>>

PostEvaluation(evaluation) ==
    /\ evaluations' = post_evaluation(evaluations, evaluation)
    /\ last_call' = [op |-> "post_evaluation", ret |-> -1, arg |-> evaluation,
                     old |-> Recorded(evaluations, evaluation.proposal_id,
                                      evaluation.agent_name)]
    /\ UNCHANGED <<proposals, current_round, driver, handler>>

vars == <<proposals, evaluations, current_round, last_call, driver, handler>>

NextProposals == \E author \in Authors, proposal_data \in ProposalData :
                    PostProposal(author, proposal_data)

NextEvaluations == \E evaluation \in EvaluationInputs : PostEvaluation(evaluation)

SpecProposals == InitBoard /\ [][NextProposals]_vars

SpecEvaluations == InitBoard /\ [][NextEvaluations]_vars

(***************************************************************************)
(* Properties of the board                                                 *)
(***************************************************************************)

\* C1: every post_proposal call returns the number of proposals on the board
\* before the call, the proposal it stores carries that id, and the ids on
\* the board are 0, 1, 2, ... in posting order.
C1_ProposalIdsSequential ==
    /\ \A i \in 1..Len(proposals) : proposals[i].id = i - 1
    /\ last_call.op = "post_proposal"
        => /\ last_call.ret = Len(proposals) - 1
           /\ proposals[Len(proposals)].id = last_call.ret

\* C1 happens: a second proposal was posted and the call returned 1
C1_Witness ==
    /\ last_call.op = "post_proposal"
    /\ Len(proposals) = 2
    /\ last_call.ret = 1

\* the evaluations recorded for a proposal under the name of one agent
RecordedUnder(evals, proposal_id, agent_name) ==
    IF proposal_id \notin DOMAIN evals THEN {}
    ELSE {a \in DOMAIN evals[proposal_id] :
             evals[proposal_id][a].agent_name = agent_name}

\* C2: a post_evaluation for a (proposal_id, agent_name) that already has an
\* evaluation leaves exactly one evaluation under that key, the one just
\* posted, and changes the evaluation of no other key.
C2_SecondEvaluationReplaces ==
    [][(last_call'.op = "post_evaluation" /\ last_call'.old # None) =>
        LET posted == last_call'.arg
        IN  /\ Recorded(evaluations', posted.proposal_id, posted.agent_name)
                = posted
            /\ Cardinality(RecordedUnder(evaluations', posted.proposal_id,
                                         posted.agent_name)) = 1
            /\ \A pid \in 0..MaxPid, a \in AgentNames :
                  <<pid, a>> # <<posted.proposal_id, posted.agent_name>>
                    => Recorded(evaluations', pid, a)
                         = Recorded(evaluations, pid, a)]_vars

\* C2 happens: an evaluation replaced one with another score while other
\* keys held evaluations
C2_Witness ==
    /\ last_call.op = "post_evaluation"
    /\ last_call.old # None
    /\ last_call.old.satisfaction_score # last_call.arg.satisfaction_score
    /\ \E pid \in 0..MaxPid, a \in AgentNames :
          /\ <<pid, a>> # <<last_call.arg.proposal_id, last_call.arg.agent_name>>
          /\ Recorded(evaluations, pid, a) # None

MaxRequired == 2                    \* length of a required_agents list

RequiredLists == UNION {[1..n -> AgentNames] : n \in 0..MaxRequired}

Thresholds == {0, 4, 5}

\* C3: check_unanimous_acceptance is true exactly when every required agent
\* has a recorded evaluation for the proposal with a score of at least the
\* threshold, for every board, proposal id, required list and threshold.
C3_UnanimousIffAllRecorded ==
    \A pid \in 0..MaxPid, required_agents \in RequiredLists,
       threshold \in Thresholds :
        check_unanimous_acceptance(evaluations, pid, required_agents, threshold)
          <=> \A i \in 1..Len(required_agents) :
                 /\ Recorded(evaluations, pid, required_agents[i]) # None
                 /\ Recorded(evaluations, pid, required_agents[i])
                        .satisfaction_score >= threshold

\* C4: check_unanimous_acceptance is false when some required agent has no
\* recorded evaluation for the proposal, whatever the other scores and the
\* threshold.
C4_MissingEvaluationRejects ==
    \A pid \in 0..MaxPid, required_agents \in RequiredLists,
       threshold \in Thresholds :
        (\E i \in 1..Len(required_agents) :
            Recorded(evaluations, pid, required_agents[i]) = None)
          => ~check_unanimous_acceptance(evaluations, pid, required_agents,
                                         threshold)

Budgets == {0, 2, 3}

\* agents_dict: the registered agents' max_side_payment_budget
AgentsDicts ==
    UNION {[S -> Budgets] : S \in SUBSET {"Healthcare_Worker", "Business_Owner"}}

PaidTo(side_payments, a, b) ==
    IF <<a, b>> \in DOMAIN side_payments THEN side_payments[<<a, b>>] ELSE 0

\* what payer a pays in all
PayerTotal(side_payments, a) ==
    PaidTo(side_payments, a, "Policy_Maker")
      + PaidTo(side_payments, a, "Healthcare_Worker")
      + PaidTo(side_payments, a, "Business_Owner")

\* C5: validate_side_payments is false when the payments of some registered
\* payer add up to more than its budget, and true when every registered
\* payer's total is at most its budget (a total equal to the budget
\* included) and when the proposal has no side payments.
C5_BudgetValidation ==
    \A i \in 1..Len(proposals), agents_dict \in AgentsDicts :
        LET side_payments == proposals[i].side_payments
            valid == validate_side_payments(proposals[i], agents_dict)
        IN  /\ (\E a \in DOMAIN agents_dict :
                   PayerTotal(side_payments, a) > agents_dict[a]) => ~valid
            /\ (\A a \in DOMAIN agents_dict :
                   PayerTotal(side_payments, a) <= agents_dict[a]) => valid
            /\ DOMAIN side_payments = {} => valid

\* C5 happens: a proposal on the board has a payer paying two payees a total
\* equal to one budget (accepted) and above another (rejected), and another
\* proposal has no side payments
C5_Witness ==
    /\ \E i \in 1..Len(proposals) : DOMAIN proposals[i].side_payments = {}
    /\ \E i \in 1..Len(proposals) :
          LET side_payments == proposals[i].side_payments
          IN  /\ Cardinality({k \in DOMAIN side_payments :
                                 k[1] = "Healthcare_Worker"}) = 2
              /\ PayerTotal(side_payments, "Healthcare_Worker") = 3
              /\ validate_side_payments(proposals[i],
                     [a \in {"Healthcare_Worker"} |-> 3])
              /\ ~validate_side_payments(proposals[i],
                     [a \in {"Healthcare_Worker"} |-> 2])

RECURSIVE ProposedFlow(_, _, _)
\* the total the numeric entries of a side_payments list move from a to b
ProposedFlow(entries, a, b) ==
    IF entries = <<>> THEN 0
    ELSE LET e == Head(entries)
         IN  (IF e.from = a /\ e.to = b /\ IsNumeric(e.amount)
                 THEN ToFloat(e.amount) ELSE 0)
               + ProposedFlow(Tail(entries), a, b)

\* what the numeric entries of a side_payments list make payer a pay in all
ProposedTotal(entries, a) ==
    ProposedFlow(entries, a, "Policy_Maker")
      + ProposedFlow(entries, a, "Healthcare_Worker")
      + ProposedFlow(entries, a, "Business_Owner")

\* C12: when the side_payments list given to post_proposal has several
\* entries for the same ordered (payer, payee) pair, the amount recorded for
\* the pair is the sum of those entries, and so is the payer's total that
\* validate_side_payments checks, not the amount of the last entry.
C12_SamePairSums ==
    [][\A author \in Authors, proposal_data \in ProposalData :
          (PostProposal(author, proposal_data)
             /\ "side_payments" \in DOMAIN proposal_data)
            => LET posted == proposals'[Len(proposals')].side_payments
                   entries == proposal_data.side_payments
               IN  /\ \A pair \in PaymentPairs :
                         PaidTo(posted, pair[1], pair[2])
                            = ProposedFlow(entries, pair[1], pair[2])
                   /\ \A agents_dict \in AgentsDicts :
                         validate_side_payments(proposals'[Len(proposals')],
                                                agents_dict)
                            <=> \A a \in DOMAIN agents_dict :
                                   ProposedTotal(entries, a) <= agents_dict[a]
      ]_vars

(***************************************************************************)
(* run_negotiation on a new board. The oracle (LLMClient.call) answers    *)
(* every request with any of a few responses, or fails.  The               *)
(* evaluate_proposal calls of a round run on the threads of a pool and     *)
(* interleave; each one reaches the board in post_evaluation, whose three  *)
(* lines are separate steps.                                               *)
(***************************************************************************)
MaxRounds == 4                      \* max_rounds of a run with one neighbor

Scores == {3, 4, 5}                 \* the satisfaction scores the oracle gives

MaxScore == CHOOSE s \in Scores : \A t \in Scores : t <= s

PolicyMaker == [name |-> "Policy_Maker", max_side_payment_budget |-> 0]
HealthcareWorker == [name |-> "Healthcare_Worker", max_side_payment_budget |-> 5]
BusinessOwner == [name |-> "Business_Owner", max_side_payment_budget |-> 3]

\* the developer and the neighbors, and the max_rounds, of the runs explored
Scenarios ==
    {[agents |-> <<PolicyMaker, HealthcareWorker>>, max_rounds |-> n] :
        n \in 1..MaxRounds}
    \cup {[agents |-> <<PolicyMaker, HealthcareWorker, BusinessOwner>>,
           max_rounds |-> n] : n \in 1..2}

\* the averages two rounds of a run can have: sums of len scores
Averages ==
    UNION {{PyAvg(sum, Len(sc.agents)) :
               sum \in 0..(Len(sc.agents) * MaxScore)} : sc \in Scenarios}

\* the regression test, tabulated
RegressionTable ==
    {<<pair, RegressionDrop(pair[1], pair[2])>> :
        pair \in {p \in Averages \X Averages : p[1][2] = p[2][2]}}

\* a variant of Regressed that always finds a regression
RegressedAlways(prev_avg, avg_score) == TRUE

Regressed(prev_avg, avg_score) ==
    <<<<prev_avg, avg_score>>, TRUE>> \in RegressionTable

\* a variant of RegressionFires that fires whatever the round and the scores
RegressionFiresAlways(round, prev_avg, avg_score) == TRUE

\* line 1267: space.current_round > 1 and
\* (prev_avg_satisfaction - avg_score) > 0.2
RegressionFires(round, prev_avg, avg_score) ==
    round > 1 /\ Regressed(prev_avg, avg_score)

(***************************************************************************)
(* What the history records, in the terms of the properties                *)
(***************************************************************************)
EveryScoreAtLeast4(scores) == \A i \in 1..Len(scores) : scores[i] >= 4

\* sum1/len1 - sum2/len2 > 1/5, in exact arithmetic
DropAboveTolerance(avg1, avg2) ==
    5 * (avg1[1] * avg2[2] - avg2[1] * avg1[2]) > avg1[2] * avg2[2]

\* some agent of the run pays, in all, more than its budget
PaysAboveBudget(proposal, agts) ==
    \E i \in DOMAIN agts :
        PayerTotal(proposal.side_payments, agts[i].name)
            > agts[i].max_side_payment_budget

RECURSIVE SumSeq(_)
\* sum(all_scores)
SumSeq(seq) == IF seq = <<>> THEN 0 ELSE Head(seq) + SumSeq(Tail(seq))

\* a variant of AllSatisfied that no scores satisfy
NeverSatisfied(scores) == FALSE

\* a variant of AllSatisfied that asks for more than 4
AllAboveFour(scores) == \A i \in 1..Len(scores) : scores[i] > 4

\* all(score >= 4 for score in all_scores)
AllSatisfied(scores) == \A i \in 1..Len(scores) : scores[i] >= 4

Worker(at, score) == [pc |-> at, score |-> score]

\* a variant of Return that hands back the proposal under negotiation on
\* every path
ReturnCurrent(value, how) ==
    /\ pc' = "done"
    /\ result' = current_proposal
    /\ outcome' = how

\* return value from run_negotiation
Return(value, how) ==
    /\ pc' = "done"
    /\ result' = value
    /\ outcome' = how

\* a variant of Raise that swallows the exception and returns None
RaiseSwallowed == Return(None, "EXHAUSTED")

\* an exception leaves run_negotiation
Raise == Return(None, "RAISED")

Init ==
    /\ NewBoard
    /\ last_call = NoCall
    /\ HandlerIdle
    /\ \E sc \in Scenarios :
          /\ agents = sc.agents
          /\ max_rounds = sc.max_rounds
          /\ workers = [i \in 1..Len(sc.agents) |-> Worker("idle", 0)]
          /\ calls = [NoCalls EXCEPT
                         !.evaluate_proposal = [i \in 1..Len(sc.agents) |-> 0]]
    /\ pc = "start"
    /\ round_num = 0
    /\ current_proposal = None
    /\ prev_avg_satisfaction = PyAvg(0, 1)
    /\ all_scores = <<>>
    /\ should_continue = None
    /\ result = None
    /\ outcome = "running"
    /\ seen = SeenNothing

\* lines 1191-1212: the opening proposal, which has no "side_payments"
StartNegotiation ==
    /\ pc = "start"
    /\ proposals' = post_proposal(proposals, current_round, agents[1].name,
                                  [base_project |-> "none"])
    /\ current_proposal' = get_latest_proposal(proposals')
    /\ prev_avg_satisfaction' = PyAvg(0, 1)
    /\ pc' = "loop"
    /\ UNCHANGED <<evaluations, current_round, last_call, handler, agents, max_rounds,
                   round_num, workers, all_scores, should_continue, result,
                   outcome, calls, seen>>

\* lines 1215-1238: a round begins; every agent's evaluate_proposal is
\* submitted to the pool
BeginRound ==
    /\ pc = "loop"
    /\ round_num < max_rounds
    /\ round_num' = round_num + 1
    /\ current_round' = current_round + 1
    /\ workers' = [i \in DOMAIN workers |-> Worker("submitted", 0)]
    /\ all_scores' = <<>>
    /\ should_continue' = None
    /\ pc' = "evaluating"
    /\ UNCHANGED <<proposals, evaluations, last_call, handler, agents, max_rounds,
                   current_proposal, prev_avg_satisfaction, result, outcome,
                   calls, seen>>

\* a variant of Exhausted that leaves the loop one round early
ExhaustedEarly ==
    /\ pc = "loop"
    /\ round_num + 1 = max_rounds
    /\ Return(None, "EXHAUSTED")
    /\ UNCHANGED <<board, last_call, handler, agents, max_rounds, round_num,
                   current_proposal, prev_avg_satisfaction, workers,
                   all_scores, should_continue, calls, seen>>

\* line 1346: the rounds are used up
Exhausted ==
    /\ pc = "loop"
    /\ round_num = max_rounds
    /\ Return(None, "EXHAUSTED")
    /\ UNCHANGED <<board, last_call, handler, agents, max_rounds, round_num,
                   current_proposal, prev_avg_satisfaction, workers,
                   all_scores, should_continue, calls, seen>>

WorkerStep(i, at) ==
    /\ pc = "evaluating"
    /\ workers[i].pc = at
    /\ UNCHANGED <<proposals, current_round, last_call, handler, agents, max_rounds, pc,
                   round_num, current_proposal, prev_avg_satisfaction,
                   all_scores, should_continue, result, outcome, seen>>

\* evaluate_proposal, lines 423-476, when the oracle fails or its response
\* has no integer satisfaction_score or no explanation: the exception is
\* re-raised and nothing is posted
EvaluateFail(i) ==
    /\ WorkerStep(i, "submitted")
    /\ workers' = [workers EXCEPT ![i] = Worker("raised", 0)]
    /\ calls' = [calls EXCEPT !.evaluate_proposal[i] = @ + 1]
    /\ UNCHANGED evaluations

\* evaluate_proposal, lines 423-469, and post_evaluation, line 103: the
\* response parses, and the thread tests whether the proposal has
\* evaluations.  (The score of the response is drawn where it is first
\* written, in EvaluateInsert.)
EvaluateCall(i) ==
    /\ WorkerStep(i, "submitted")
    /\ workers' = [workers EXCEPT ![i] =
                      IF HasEvaluations(evaluations, current_proposal.id)
                      THEN Worker("insert", 0) ELSE Worker("create", 0)]
    /\ calls' = [calls EXCEPT !.evaluate_proposal[i] = @ + 1]
    /\ UNCHANGED evaluations

\* post_evaluation, line 104
EvaluateCreate(i) ==
    /\ WorkerStep(i, "create")
    /\ evaluations' = CreateEvaluations(evaluations, current_proposal.id)
    /\ workers' = [workers EXCEPT ![i] = Worker("insert", 0)]
    /\ UNCHANGED calls

\* post_evaluation, line 105, and evaluate_proposal, line 471
EvaluateInsert(i, satisfaction_score) ==
    /\ WorkerStep(i, "insert")
    /\ evaluations' = InsertEvaluation(evaluations,
                          [agent_name |-> agents[i].name,
                           proposal_id |-> current_proposal.id,
                           satisfaction_score |-> satisfaction_score])
    /\ workers' = [workers EXCEPT ![i] = Worker("returned", satisfaction_score)]
    /\ UNCHANGED calls

\* a variant of CollectedScores that leaves the developer's score out
NeighborScores(w) == [i \in 1..(Len(w) - 1) |-> w[i + 1].score]

\* line 1261: neighbor_scores + [dev_eval.satisfaction_score]; the neighbors'
\* scores are listed in the order of completion, which no use of all_scores
\* depends on: they are taken in the order of the neighbors
CollectedScores(w) ==
    [i \in 1..Len(w) |-> IF i < Len(w) THEN w[i + 1].score ELSE w[1].score]

\* a variant of AllCompleted for futures that never complete
NeverCompleted(w) == FALSE

\* a variant of AllCompleted that waits for one future only
AnyCompleted(w) == \E i \in DOMAIN w : w[i].pc \in {"returned", "raised"}

\* lines 1241-1258: as_completed has yielded every neighbor's future,
\* dev_future.result() has returned or raised, and the pool has shut down
AllCompleted(w) == \A i \in DOMAIN w : w[i].pc \in {"returned", "raised"}

\* lines 1241-1286: every future has completed.  A failed evaluation raises
\* from future.result() and leaves run_negotiation once the pool has shut
\* down; otherwise the average is taken, then the regression test, then the
\* test for success.
Collect ==
    /\ pc = "evaluating"
    /\ AllCompleted(workers)
    /\ workers' = [i \in DOMAIN workers |-> Worker("idle", 0)]
    /\ IF \E i \in DOMAIN workers : workers[i].pc = "raised"
       THEN /\ Raise
            /\ seen' = [seen EXCEPT !.failure = TRUE]
            /\ UNCHANGED <<all_scores, prev_avg_satisfaction>>
       ELSE LET scores    == CollectedScores(workers)
                avg_score == PyAvg(SumSeq(scores), Len(scores))
            IN  /\ all_scores' = scores
                /\ seen' = [seen EXCEPT
                      !.all_satisfied = @ \/ EveryScoreAtLeast4(scores),
                      !.regression = @ \/ RegressionFires(current_round,
                          prev_avg_satisfaction, avg_score)]
                /\ IF RegressionFires(current_round, prev_avg_satisfaction,
                                      avg_score)
                   THEN /\ Return(None, "ABORTED_REGRESSION")
                        /\ UNCHANGED prev_avg_satisfaction
                   ELSE /\ prev_avg_satisfaction' = avg_score
                        /\ IF AllSatisfied(scores)
                           THEN Return(current_proposal, "SUCCESS")
                           ELSE /\ pc' = "judge"
                                /\ UNCHANGED <<result, outcome>>
    /\ UNCHANGED <<board, last_call, handler, agents, max_rounds, round_num,
                   current_proposal, should_continue, calls>>

\* LLMClient.call, lines 184-212: the oracle's answer is the status of the
\* HTTP response and, with status 200, its content.  A content is read only
\* through its tags, so it is the function from its tag names to their
\* text.  Any other status makes call raise.
StatusOk == 200
StatusUnavailable == 503

OracleFailure == [status |-> StatusUnavailable, content |-> <<>>]

\* a variant of OracleRaises for a call that returns whatever the status
OracleNeverRaises(response) == FALSE

OracleRaises(response) == response.status # StatusOk

\* parse_xml_tag, lines 215-221: the text of the tag; it raises ValueError
\* when the tag is not there (HasTag is false)
HasTag(content, tag) == tag \in DOMAIN content
parse_xml_tag(content, tag) == content[tag]

\* value.lower().strip() on the texts used here
LowerStrip(value) ==
    IF value = "False" THEN "false"
    ELSE IF value = "True" THEN "true"
    ELSE value

\* parse_bool, lines 231-239: it raises ValueError when IsBool is false
IsBool(value) ==
    LowerStrip(value) \in {"true", "yes", "1", "false", "no", "0"}
parse_bool(value) == LowerStrip(value) \in {"true", "yes", "1"}

JudgeTags == {"should_continue", "reasoning", "recommendation"}

\* a content with the three tags
FullContent(text) ==
    [tag \in JudgeTags |-> IF tag = "should_continue" THEN text ELSE "text"]

Without(content, tag) == [t \in DOMAIN content \ {tag} |-> content[t]]

\* the contents the oracle answers should_continue_negotiation with: the
\* three tags with one of a few texts in should_continue, or a "False" with
\* one of the tags missing
JudgeContents ==
    {FullContent(text) : text \in {"true", "False", "maybe"}}
      \cup {Without(FullContent("False"), tag) : tag \in JudgeTags}

JudgeResponses ==
    {[status |-> StatusOk, content |-> content] : content \in JudgeContents}
      \cup {OracleFailure}

\* lines 993-996 run to the end without raising
JudgeParses(content) ==
    /\ HasTag(content, "should_continue")
    /\ IsBool(parse_xml_tag(content, "should_continue"))
    /\ HasTag(content, "reasoning")
    /\ HasTag(content, "recommendation")

\* a variant of DefaultContinue that stops the negotiation
DefaultStop == FALSE

\* line 1005: the decision returned when the response does not parse
DefaultContinue == TRUE

\* should_continue_negotiation, lines 881-1005: what it returns, and by what
should_continue_negotiation(evals, proposal, response) ==
    LET feedback    == get_feedback_for_proposal(evals, proposal.id)
        unsatisfied == {a \in DOMAIN feedback : feedback[a] < 4}
    IN  IF DOMAIN feedback = {}
        THEN [raised |-> FALSE, continue |-> TRUE, by |-> "no feedback"]
        ELSE IF unsatisfied = {}
        THEN [raised |-> FALSE, continue |-> FALSE, by |-> "all satisfied"]
        ELSE IF OracleRaises(response)
        THEN [raised |-> TRUE, continue |-> FALSE, by |-> "error"]
        ELSE IF JudgeParses(response.content)
        THEN [raised |-> FALSE,
              continue |-> parse_bool(parse_xml_tag(response.content,
                                                    "should_continue")),
              by |-> "oracle"]
        ELSE [raised |-> FALSE, continue |-> DefaultContinue, by |-> "default"]

\* lines 1289-1306
Judge(response) ==
    /\ pc = "judge"
    /\ LET judged == should_continue_negotiation(evaluations, current_proposal,
                                                 response)
       IN  /\ should_continue' = judged
           /\ IF judged.raised THEN Raise
              ELSE IF ~judged.continue
              THEN Return(current_proposal, "PARETO_STOP")
              ELSE /\ pc' = "synthesize"
                   /\ UNCHANGED <<result, outcome>>
           /\ seen' = [seen EXCEPT
                 !.stop = @ \/ (~judged.raised /\ ~judged.continue),
                 !.failure = @ \/ judged.raised]
    /\ calls' = [calls EXCEPT !.should_continue_negotiation = @ + 1]
    /\ UNCHANGED <<board, last_call, handler, agents, max_rounds, round_num,
                   current_proposal, prev_avg_satisfaction, workers,
                   all_scores>>

Payment(from, to, amount) == [from |-> from, to |-> to, amount |-> amount]

\* the oracle's answers to synthesize_proposal: the payments of the
\* side_payments tag, with or without a base_project tag, or the failure
\* of LLMClient.call
SynthesisResponses ==
    {[status |-> StatusOk, base_project |-> TRUE, side_payments |-> payments] :
        payments \in {<<>>,
                      <<Payment("Healthcare_Worker", "Policy_Maker", "2")>>,
                      <<Payment("Healthcare_Worker", "Policy_Maker", "2"),
                        Payment("Healthcare_Worker", "Policy_Maker", "2"),
                        Payment("Healthcare_Worker", "Policy_Maker", "2")>>,
                      <<Payment("Policy_Maker", "Healthcare_Worker", "1")>>}}
    \cup {[status |-> StatusOk, base_project |-> FALSE,
            side_payments |-> <<>>],
          [status |-> StatusUnavailable, base_project |-> FALSE,
            side_payments |-> <<>>]}

NumericAmount(payment) == IsNumeric(payment.amount)

\* synthesize_proposal, lines 753-863: the data it returns.  A payment whose
\* amount float() rejects is left out (line 837); the amount of the others
\* is kept as the text float() took, which float() in post_proposal takes
\* again.
synthesize_proposal(response) ==
    [base_project  |-> "improved",
     side_payments |-> SelectSeq(response.side_payments, NumericAmount)]

\* a variant of AgentsDict that registers the neighbors only
AgentsDictNeighbors(agts) ==
    [name \in {agts[i].name : i \in DOMAIN agts \ {1}} |->
        LET last == CHOOSE i \in DOMAIN agts \ {1} :
                       /\ agts[i].name = name
                       /\ \A j \in DOMAIN agts \ {1} :
                             agts[j].name = name => j <= i
        IN  agts[last].max_side_payment_budget]

\* lines 1326-1328: a later agent of the same name replaces an earlier one
AgentsDict(agts) ==
    [name \in {agts[i].name : i \in DOMAIN agts} |->
        LET last == CHOOSE i \in DOMAIN agts :
                       /\ agts[i].name = name
                       /\ \A j \in DOMAIN agts : agts[j].name = name => j <= i
        IN  agts[last].max_side_payment_budget]

\* lines 1316-1338
Synthesize(response) ==
    /\ pc = "synthesize"
    /\ calls' = [calls EXCEPT !.synthesize_proposal = @ + 1]
    /\ IF OracleRaises(response) \/ ~response.base_project
       THEN /\ Raise
            /\ seen' = [seen EXCEPT !.failure = TRUE]
            /\ UNCHANGED <<proposals, current_proposal>>
       ELSE /\ proposals' = post_proposal(proposals, current_round,
                                agents[1].name, synthesize_proposal(response))
            /\ current_proposal' = get_latest_proposal(proposals')
            /\ seen' = [seen EXCEPT !.over_budget =
                  @ \/ PaysAboveBudget(proposals'[Len(proposals')], agents)]
            /\ IF /\ DOMAIN current_proposal'.side_payments # {}
                  /\ ~validate_side_payments(current_proposal',
                                             AgentsDict(agents))
               THEN Return(None, "ABORTED_BUDGET")
               ELSE /\ pc' = "loop"
                    /\ UNCHANGED <<result, outcome>>
    /\ UNCHANGED <<evaluations, current_round, last_call, handler, agents, max_rounds,
                   round_num, prev_avg_satisfaction, workers, all_scores,
                   should_continue>>

Next ==
    \/ StartNegotiation
    \/ BeginRound
    \/ Exhausted
    \/ \E i \in DOMAIN workers : EvaluateFail(i)
    \/ \E i \in DOMAIN workers : EvaluateCall(i)
    \/ \E i \in DOMAIN workers : EvaluateCreate(i)
    \/ \E i \in DOMAIN workers, satisfaction_score \in Scores :
          EvaluateInsert(i, satisfaction_score)
    \/ Collect
    \/ \E response \in JudgeResponses : Judge(response)
    \/ \E response \in SynthesisResponses : Synthesize(response)

Spec == Init /\ [][Next]_vars

(***************************************************************************)
(* src/backend/app.py, create_scenario_from_preferences: the agents built  *)
(* from a client's preferences, and run_negotiation on them.               *)
(***************************************************************************)
MaxScenarioRounds == 1              \* max_rounds of the runs of SpecScenario

\* user_prefs.get("participant_name", "User"), user_prefs.get("role",
\* "neighbor"): any text the client sends
ParticipantNames == {"User", "Policy_Maker", "Healthcare_Worker"}
Roles == {"neighbor", "developer"}

\* lines 38-100: <<developer, neighbor, ...>>
create_scenario_from_preferences(participant_name, role) ==
    IF role # "developer"
    THEN <<PolicyMaker,
           [name |-> participant_name, max_side_payment_budget |-> 5]>>
    ELSE <<[name |-> participant_name, max_side_payment_budget |-> 0],
           HealthcareWorker, BusinessOwner>>

InitScenario ==
    /\ NewBoard
    /\ last_call = NoCall
    /\ HandlerIdle
    /\ \E participant_name \in ParticipantNames, role \in Roles :
          /\ agents = create_scenario_from_preferences(participant_name, role)
          /\ workers = [i \in DOMAIN agents |-> Worker("idle", 0)]
          /\ calls = [NoCalls EXCEPT
                         !.evaluate_proposal = [i \in DOMAIN agents |-> 0]]
    /\ max_rounds \in 1..MaxScenarioRounds
    /\ pc = "start"
    /\ round_num = 0
    /\ current_proposal = None
    /\ prev_avg_satisfaction = PyAvg(0, 1)
    /\ all_scores = <<>>
    /\ should_continue = None
    /\ result = None
    /\ outcome = "running"
    /\ seen = SeenNothing

SpecScenario == InitScenario /\ [][Next]_vars

(***************************************************************************)
(* run_negotiation with its threads scheduled: the driver's thread and the *)
(* threads of the pool keep running, and every oracle call returns or      *)
(* fails, so a step that can be taken is taken in the end.  No step is     *)
(* possible once run_negotiation has returned or raised.                   *)
(***************************************************************************)
MaxFairRounds == 3                  \* max_rounds of the runs of SpecFair

InitFair == Init /\ max_rounds <= MaxFairRounds

SpecFair == InitFair /\ [][Next]_vars /\ WF_vars(Next)

(***************************************************************************)
(* The regression test of line 1267 by itself, on the averages two         *)
(* successive rounds of a run can have: all_scores has one score of 1..5   *)
(* for each of the agents of the run.                                      *)
(***************************************************************************)
MaxAgents == 5                      \* agents of a run in SpecRegression

\* sum(all_scores) for n scores of 1..5
ScoreSums(n) == n..(5 * n)

\* lines 1262-1267 in a round after the first
CheckRegression(prev_sum, scores_sum, n) ==
    /\ last_call = NoCall
    /\ last_call' = [op  |-> "regression",

                     ret |-> RegressionDrop(PyAvg(prev_sum, n),
                                            PyAvg(scores_sum, n)),
                     arg |-> PyAvg(scores_sum, n),
                     old |-> PyAvg(prev_sum, n)]
    /\ UNCHANGED <<board, driver, handler>>

NextRegression ==
    \E n \in 2..MaxAgents : \E prev_sum \in ScoreSums(n), scores_sum \in ScoreSums(n) :
        CheckRegression(prev_sum, scores_sum, n)

SpecRegression == InitBoard /\ [][NextRegression]_vars

(***************************************************************************)
(* evaluate_proposal, one call at a time, on a new board: what it makes of *)
(* the oracle's response.  The content of a response is the function from  *)
(* its tag names to their text; the text of side_payment_interest is       *)
(* itself such a function.  (run_negotiation reads only the score of an    *)
(* evaluation, so Spec keeps only that; here the Evaluation has its        *)
(* bargaining signals too.)                                                *)
(***************************************************************************)

\* int(text), line 427: it raises ValueError when IsInt is false
IsInt(text) == text \in {"4", "6"}
ToInt(text) == IF text = "4" THEN 4 ELSE 6

\* a variant of EvaluationParses that does not ask for an explanation
EvaluationParsesScoreOnly(content) ==
    /\ HasTag(content, "satisfaction_score")
    /\ IsInt(parse_xml_tag(content, "satisfaction_score"))

\* lines 427-428 run without raising
EvaluationParses(content) ==
    /\ HasTag(content, "satisfaction_score")
    /\ IsInt(parse_xml_tag(content, "satisfaction_score"))
    /\ HasTag(content, "explanation")

\* the field of the side_payment_interest section can be read as a boolean
SignalParses(content, field) ==
    /\ HasTag(content, "side_payment_interest")
    /\ HasTag(parse_xml_tag(content, "side_payment_interest"), field)
    /\ IsBool(parse_xml_tag(parse_xml_tag(content, "side_payment_interest"),
                            field))

\* lines 437-449: a boolean signal, False unless the section and the field
\* are there and the field parses
BoolSignal(content, field) ==
    IF SignalParses(content, field)
    THEN parse_bool(parse_xml_tag(parse_xml_tag(content,
                                      "side_payment_interest"), field))
    ELSE FALSE

\* lines 439-442
willing_to_accept(content) == BoolSignal(content, "willing_to_accept")

\* a variant of willing_to_pay in which a willing_to_accept that does not
\* parse leaves the rest of the section unread
willing_to_pay_after_accept(content) ==
    /\ SignalParses(content, "willing_to_accept")
    /\ BoolSignal(content, "willing_to_pay")

\* lines 443-446
willing_to_pay(content) == BoolSignal(content, "willing_to_pay")

\* lines 447-450
willingness_estimate(content) ==
    IF /\ HasTag(content, "side_payment_interest")
       /\ HasTag(parse_xml_tag(content, "side_payment_interest"),
                 "willingness_to_pay_estimate")
    THEN parse_xml_tag(parse_xml_tag(content, "side_payment_interest"),
                       "willingness_to_pay_estimate")
    ELSE ""

\* lines 455-466: the Evaluation built from a response that parses
evaluate_proposal(name, proposal_id, content) ==
    [agent_name |-> name,
     proposal_id |-> proposal_id,
     satisfaction_score |-> ToInt(parse_xml_tag(content, "satisfaction_score")),
     willing_to_accept_payment |-> willing_to_accept(content),
     willing_to_pay |-> willing_to_pay(content),
     willingness_to_pay_estimate |-> willingness_estimate(content)]

\* the side_payment_interest sections of the responses: each field is
\* there or not, the booleans with a text that parses or one that does not
InterestSections ==
    {[field \in fields |->
         IF field = "willing_to_accept" THEN accept
         ELSE IF field = "willing_to_pay" THEN pay
         ELSE "up to 500"] :
       fields \in SUBSET {"willing_to_accept", "willing_to_pay",
                          "willingness_to_pay_estimate"},
       accept \in {"true", "maybe"}, pay \in {"yes", "maybe"}}

\* the score of a response that parses: the oracle may write any integer
ScoreTexts == {"4", "6"}

Scored(text) == [satisfaction_score |-> text, explanation |-> "text"]

WithTag(content, tag, value) ==
    [t \in DOMAIN content \cup {tag} |->
        IF t = tag THEN value ELSE content[t]]

\* the contents the oracle answers evaluate_proposal with: a score and an
\* explanation, with or without a side_payment_interest section; or a
\* score that is no integer, no score, or no explanation
EvaluationContents ==
    {Scored(text) : text \in ScoreTexts}
      \cup {WithTag(Scored(text), "side_payment_interest", section) :
               text \in ScoreTexts, section \in InterestSections}
      \cup {Scored("4.5"),
            Without(Scored("4"), "satisfaction_score"),
            Without(Scored("4"), "explanation")}

EvaluationResponses ==
    {[status |-> StatusOk, content |-> content] :
        content \in EvaluationContents}
      \cup {OracleFailure}

\* evaluate_proposal, lines 423-476, for the proposal with id 0
Evaluate(name, response) ==
    /\ IF OracleRaises(response) \/ ~EvaluationParses(response.content)
       THEN /\ last_call' = [op |-> "evaluate_proposal", ret |-> None,
                             arg |-> response, old |-> name]
            /\ UNCHANGED evaluations
       ELSE LET evaluation == evaluate_proposal(name, 0, response.content)
            IN  /\ evaluations' = post_evaluation(evaluations, evaluation)
                /\ last_call' = [op |-> "evaluate_proposal",
                                 ret |-> evaluation,
                                 arg |-> response, old |-> name]
    /\ UNCHANGED <<proposals, current_round, driver, handler>>

NextEvaluate ==
    \E name \in {"Policy_Maker", "Healthcare_Worker"},
       response \in EvaluationResponses : Evaluate(name, response)

SpecEvaluate == InitBoard /\ [][NextEvaluate]_vars

(***************************************************************************)
(* websocket_negotiate, app.py lines 131-233.  The handler is a coroutine  *)
(* on the event loop; run_neg runs on the one thread of an executor.  The  *)
(* callbacks that call_soon_threadsafe schedules run on the event loop     *)
(* while the coroutine is suspended in an await.                           *)
(***************************************************************************)

\* a message to the client, or an update; seq numbers the updates in the
\* order of the on_update calls and is 0 for the handler's own messages
Message(type, seq) == [type |-> type, seq |-> seq]

\* the first message of the client: text json.loads rejects, an object
\* without preferences, or the preferences of a neighbor or of a developer
Requests == {"invalid json", "no preferences", "neighbor", "developer"}

\* lines 1159-1163 of main.py: the parameters of run_negotiation
RunNegotiationParameters == {"developer", "neighbors", "space", "max_rounds"}

\* app.py lines 175-181: the keyword arguments of the call in run_neg
RunNegKeywords == {"max_rounds", "on_update"}

\* Python binds the arguments of a call before it runs the body, and raises
\* TypeError on a keyword that is no parameter
BindsArguments == RunNegKeywords \subseteq RunNegotiationParameters

\* negotiation_task.done(): the future run_in_executor returned has been
\* given the outcome of run_neg
TaskDone(t) == t \in {"returned None", "returned proposal", "raised"}

\* run_neg is over on its thread: the executor's future schedules, with
\* call_soon_threadsafe, the callback that gives negotiation_task its
\* outcome; task is "finished" until the event loop has run it
Finish(how) ==
    /\ task' = "finished"
    /\ ready' = Append(ready, Message(how, 0))

HandlerAt(at) == ws_pc = at

\* an exception reaches the handler at line 221
HandlerRaises == ws_pc' = "except"

\* a client connects and websocket.accept() returns, line 133
Connect ==
    /\ HandlerAt("idle")
    /\ connected' = TRUE
    /\ ws_pc' = "receive"
    /\ UNCHANGED <<request, task, notified, ready, update_queue,
                   pending_updates, for_index, sent>>
    /\ UNCHANGED <<board, last_call, driver>>

\* the client goes away; every later receive or send raises
Disconnect ==
    /\ connected
    /\ ws_pc \notin {"idle", "closed"}
    /\ connected' = FALSE
    /\ UNCHANGED <<request, ws_pc, task, notified, ready, update_queue,
                   pending_updates, for_index, sent>>
    /\ UNCHANGED <<board, last_call, driver>>

\* lines 136-137: the first message is received and parsed
Receive(req) ==
    /\ HandlerAt("receive")
    /\ IF ~connected
       THEN /\ HandlerRaises
            /\ UNCHANGED request
       ELSE /\ request' = req
            /\ IF req = "invalid json"
               THEN HandlerRaises
               ELSE ws_pc' = "status"
    /\ UNCHANGED <<connected, task, notified, ready, update_queue,
                   pending_updates, for_index, sent>>
    /\ UNCHANGED <<board, last_call, driver>>

\* lines 140-146: the status message is sent
SendStatus ==
    /\ HandlerAt("status")
    /\ IF ~connected
       THEN /\ HandlerRaises
            /\ UNCHANGED sent
       ELSE /\ sent' = Append(sent, Message("status", 0))
            /\ ws_pc' = "submit"
    /\ UNCHANGED <<request, connected, task, notified, ready, update_queue,
                   pending_updates, for_index>>
    /\ UNCHANGED <<board, last_call, driver>>

\* lines 142-184: the agents, the board, the queue and the executor are
\* made and run_neg is submitted to the executor
Submit ==
    /\ HandlerAt("submit")
    /\ task' = "scheduled"
    /\ ws_pc' = "drain"
    /\ UNCHANGED <<request, connected, notified, ready, update_queue,
                   pending_updates, for_index, sent>>
    /\ UNCHANGED <<board, last_call, driver>>

\* run_neg on the executor's thread, lines 175-181: the call of
\* run_negotiation with the keyword on_update
TaskRun ==
    /\ task = "scheduled"
    /\ IF BindsArguments
       THEN task' = "running" /\ UNCHANGED ready
       ELSE Finish("raised")
    /\ UNCHANGED <<request, connected, ws_pc, notified, update_queue,
                   pending_updates, for_index, sent>>
    /\ UNCHANGED <<board, last_call, driver>>

\* on_update, lines 164-169, called on the executor's thread
OnUpdate ==
    /\ task = "running"
    /\ LET update == Message("update", Len(notified) + 1)
       IN  /\ notified' = Append(notified, update)
           /\ ready' = Append(ready, update)
    /\ UNCHANGED <<request, connected, ws_pc, task, update_queue,
                   pending_updates, for_index, sent>>
    /\ UNCHANGED <<board, last_call, driver>>

\* the body of run_negotiation returns
TaskReturn(how) ==
    /\ task = "running"
    /\ Finish(how)
    /\ UNCHANGED <<request, connected, ws_pc, notified, update_queue,
                   pending_updates, for_index, sent>>
    /\ UNCHANGED <<board, last_call, driver>>

\* the event loop runs the oldest callback scheduled from the thread, an
\* update_queue.put_nowait or the completion of negotiation_task, while the
\* handler is suspended in send_text or in sleep
RunCallback ==
    /\ ready # <<>>
    /\ ws_pc \in {"sending", "sleeping"}
    /\ IF Head(ready).type = "update"
       THEN /\ update_queue' = Append(update_queue, Head(ready))
            /\ UNCHANGED task
       ELSE /\ task' = Head(ready).type
            /\ UNCHANGED update_queue
    /\ ready' = Tail(ready)
    /\ UNCHANGED <<request, connected, ws_pc, notified, pending_updates,
                   for_index, sent>>
    /\ UNCHANGED <<board, last_call, driver>>

\* lines 190-195: the queue is emptied into pending_updates; line 198: the
\* for loop makes its iterator
Drain ==
    /\ HandlerAt("drain")
    /\ pending_updates' = pending_updates \o update_queue
    /\ update_queue' = <<>>
    /\ for_index' = 0
    /\ ws_pc' = "for"
    /\ UNCHANGED <<request, connected, task, notified, ready, sent>>
    /\ UNCHANGED <<board, last_call, driver>>

\* list.remove: the list without the first element equal to value
ListRemove(list, value) ==
    LET at == CHOOSE i \in 1..Len(list) :
                  /\ list[i] = value
                  /\ \A j \in 1..(i - 1) : list[j] # value
    IN  SubSeq(list, 1, at - 1) \o SubSeq(list, at + 1, Len(list))

\* line 198: the list iterator yields the element at its position and moves
\* on, or stops when its position is past the end of the list as it is now;
\* line 199: send_text is awaited
ForNext ==
    /\ HandlerAt("for")
    /\ IF for_index < Len(pending_updates)
       THEN /\ for_index' = for_index + 1
            /\ ws_pc' = "sending"
       ELSE /\ ws_pc' = "check"
            /\ UNCHANGED for_index
    /\ UNCHANGED <<request, connected, task, notified, ready, update_queue,
                   pending_updates, sent>>
    /\ UNCHANGED <<board, last_call, driver>>

\* lines 199-200: send_text returns or raises; the update sent is removed
\* from the list the loop iterates over
SendUpdate ==
    /\ HandlerAt("sending")
    /\ IF ~connected
       THEN /\ HandlerRaises
            /\ UNCHANGED <<sent, pending_updates>>
       ELSE LET update == pending_updates[for_index]
            IN  /\ sent' = Append(sent, update)
                /\ pending_updates' = ListRemove(pending_updates, update)
                /\ ws_pc' = "for"
    /\ UNCHANGED <<request, connected, task, notified, ready, update_queue,
                   for_index>>
    /\ UNCHANGED <<board, last_call, driver>>

\* lines 203-204 and 207
CheckDone ==
    /\ HandlerAt("check")
    /\ ws_pc' = IF TaskDone(task) THEN "result" ELSE "sleeping"
    /\ UNCHANGED <<request, connected, task, notified, ready, update_queue,
                   pending_updates, for_index, sent>>
    /\ UNCHANGED <<board, last_call, driver>>

\* line 207: the sleep is over
Wake ==
    /\ HandlerAt("sleeping")
    /\ ws_pc' = "drain"
    /\ UNCHANGED <<request, connected, task, notified, ready, update_queue,
                   pending_updates, for_index, sent>>
    /\ UNCHANGED <<board, last_call, driver>>

\* lines 210-219: negotiation_task.result() returns the proposal or None, or
\* raises what run_neg raised; a proposal is sent as final_proposal
FinalResult ==
    /\ HandlerAt("result")
    /\ IF task = "raised" \/ (task = "returned proposal" /\ ~connected)
       THEN /\ HandlerRaises
            /\ UNCHANGED sent
       ELSE /\ ws_pc' = "finally"
            /\ sent' = IF task = "returned proposal"
                       THEN Append(sent, Message("final_proposal", 0))
                       ELSE sent
    /\ UNCHANGED <<request, connected, task, notified, ready, update_queue,
                   pending_updates, for_index>>
    /\ UNCHANGED <<board, last_call, driver>>

\* lines 221-227: the error message is sent if it can be
Except ==
    /\ HandlerAt("except")
    /\ sent' = IF connected THEN Append(sent, Message("error", 0)) ELSE sent
    /\ ws_pc' = "finally"
    /\ UNCHANGED <<request, connected, task, notified, ready, update_queue,
                   pending_updates, for_index>>
    /\ UNCHANGED <<board, last_call, driver>>

\* lines 228-232
Close ==
    /\ HandlerAt("finally")
    /\ ws_pc' = "closed"
    /\ UNCHANGED <<request, connected, task, notified, ready, update_queue,
                   pending_updates, for_index, sent>>
    /\ UNCHANGED <<board, last_call, driver>>

InitWebsocket ==
    /\ NewBoard
    /\ last_call = NoCall
    /\ DriverIdle
    /\ HandlerIdle

\* one connection to /ws/negotiate
NextWebsocket ==
    \/ Connect
    \/ Disconnect
    \/ \E req \in Requests : Receive(req)
    \/ SendStatus
    \/ Submit
    \/ TaskRun
    \/ RunCallback
    \/ Drain

    \/ ForNext
    \/ CheckDone
    \/ Wake
    \/ FinalResult
    \/ Except
    \/ Close

SpecWebsocket == InitWebsocket /\ [][NextWebsocket]_vars

(***************************************************************************)
(* The streaming loop of websocket_negotiate, lines 186-219, with a        *)
(* run_neg that calls on_update: the handler has sent its status message   *)
(* and enters the loop, the client stays connected, and the thread of the  *)
(* executor calls on_update up to MaxUpdates times before it returns.      *)
(***************************************************************************)
MaxUpdates == 3                     \* on_update calls of one run

InitStream ==
    /\ NewBoard
    /\ last_call = NoCall
    /\ DriverIdle
    /\ request \in {"neighbor", "developer"}
    /\ connected = TRUE
    /\ ws_pc = "drain"
    /\ task = "running"
    /\ notified = <<>>
    /\ ready = <<>>
    /\ update_queue = <<>>
    /\ pending_updates = <<>>
    /\ for_index = 0
    /\ sent = <<Message("status", 0)>>

NextStream ==
    \/ Len(notified) < MaxUpdates /\ OnUpdate
    \/ \E how \in {"returned None", "returned proposal"} : TaskReturn(how)
    \/ RunCallback
    \/ Drain
    \/ ForNext
    \/ SendUpdate
    \/ CheckDone
    \/ Wake
    \/ FinalResult
    \/ Close

SpecStream == InitStream /\ [][NextStream]_vars


(***************************************************************************)
(* Properties of run_negotiation                                           *)
(***************************************************************************)

\* run_negotiation has returned or raised: nothing happens any more
Returned == pc = "done" => UNCHANGED vars

\* the step on which the scores of a round are collected
CollectStep == pc = "evaluating" /\ pc' # "evaluating"

\* C6: from the second round on, when the average of the round's scores is
\* more than 0.2 below the average of the round before, run_negotiation
\* returns None in that round, and should_continue_negotiation and
\* synthesize_proposal are called neither in that round nor later.
C6_RegressionReturnsNone ==
    [][/\ (/\ CollectStep
           /\ all_scores' # <<>>
           /\ current_round >= 2
           /\ DropAboveTolerance(prev_avg_satisfaction,
                  PyAvg(SumSeq(all_scores'), Len(all_scores'))))
          => /\ pc' = "done"
             /\ result' = None
             /\ outcome' = "ABORTED_REGRESSION"
             /\ calls'.should_continue_negotiation = current_round - 1
             /\ calls'.synthesize_proposal = current_round - 1
       /\ Returned]_vars

\* C6 happens: a run ended in a later round on an average more than 0.2
\* below the one before
C6_Witness ==
    /\ outcome = "ABORTED_REGRESSION"
    /\ current_round >= 2
    /\ DropAboveTolerance(prev_avg_satisfaction,
           PyAvg(SumSeq(all_scores), Len(all_scores)))

\* C7: a run with max_rounds = N in which no round has all scores >= 4, every
\* continuation judgment says continue, the regression test never fires, no
\* proposal breaks a budget (and no call fails) makes exactly N evaluation
\* rounds, every agent evaluating N times, and returns None.
C7_ExhaustsAfterMaxRounds ==
    (/\ pc = "done"
     /\ ~seen.all_satisfied
     /\ ~seen.stop
     /\ ~seen.regression
     /\ ~seen.over_budget
     /\ ~seen.failure)
      => /\ current_round = max_rounds
         /\ \A i \in DOMAIN agents : calls.evaluate_proposal[i] = max_rounds
         /\ result = None
         /\ outcome = "EXHAUSTED"

\* C7 happens: a run of at least three rounds used up its rounds
C7_Witness ==
    /\ outcome = "EXHAUSTED"
    /\ max_rounds >= 3
    /\ seen = SeenNothing

\* C8: when every agent scores the opening proposal >= 4 in round 1,
\* run_negotiation returns the opening proposal (id 0) after one evaluation
\* round, without calling synthesize_proposal and with no second proposal
\* on the board.
C8_FirstRoundSuccess ==
    (/\ current_round = 1
     /\ all_scores # <<>>
     /\ EveryScoreAtLeast4(all_scores))
      => /\ pc = "done"
         /\ outcome = "SUCCESS"
         /\ result = proposals[1]
         /\ result.id = 0
         /\ Len(proposals) = 1
         /\ calls.synthesize_proposal = 0
         /\ round_num = 1
         /\ \A i \in DOMAIN agents : calls.evaluate_proposal[i] = 1

\* C8 happens: a run that could have gone on succeeded in round 1
C8_Witness ==
    /\ outcome = "SUCCESS"
    /\ current_round = 1
    /\ max_rounds > 1
    /\ EveryScoreAtLeast4(all_scores)

\* C9, as stated: in every round in which every collected score is >= 4,
\* run_negotiation ends in SUCCESS and returns the proposal evaluated in
\* that round.
C9_AllSatisfiedSucceeds ==
    (all_scores # <<>> /\ EveryScoreAtLeast4(all_scores))
      => /\ outcome = "SUCCESS"
         /\ result = current_proposal

\* the scores the evaluate_proposal calls of the round returned
ReturnedScores == [i \in DOMAIN workers |-> workers[i].score]

\* avg1 - avg2 > 0.2 in floating point, read from the table of RegressionDrop
FloatDropAboveTolerance(avg1, avg2) ==
    <<<<avg1, avg2>>, TRUE>> \in RegressionTable

\* C9, amended: in every round in which every collected score is >= 4 and
\* the regression test of the round does not fire (it is round 1, or the
\* previous average minus the average, in floating point, is not above 0.2),
\* run_negotiation ends in SUCCESS and returns the proposal evaluated in
\* that round.
C9_AllSatisfiedSucceedsUnlessRegressed ==
    [][(/\ CollectStep
        /\ \A i \in DOMAIN workers :
              workers[i].pc = "returned" /\ workers[i].score >= 4
        /\ ~(/\ current_round > 1
             /\ FloatDropAboveTolerance(prev_avg_satisfaction,
                    PyAvg(SumSeq(ReturnedScores), Len(ReturnedScores)))))
        => /\ pc' = "done"
           /\ outcome' = "SUCCESS"
           /\ result' = current_proposal
           /\ current_proposal = proposals[Len(proposals)]
           /\ current_proposal.id \in DOMAIN evaluations]_vars

\* C9 happens: a run succeeded in a later round
C9_Witness ==
    /\ outcome = "SUCCESS"
    /\ current_round >= 2
    /\ EveryScoreAtLeast4(all_scores)
    /\ result = current_proposal

\* C10: when should_continue_negotiation returns False for the first time in
\* round 3, run_negotiation returns the proposal synthesized in round 2, the
\* latest on the board and the one evaluated in round 3; there is no fourth
\* evaluation round and no further synthesis.
C10_StopInRoundThree ==
    [][/\ (/\ pc = "judge"
           /\ current_round = 3
           /\ ~seen.stop
           /\ should_continue' # None
           /\ ~should_continue'.raised
           /\ ~should_continue'.continue)
          => /\ pc' = "done"
             /\ outcome' = "PARETO_STOP"
             /\ Len(proposals') = 3
             /\ result' = proposals'[3]
             /\ result'.id = 2
             /\ result'.round = 2
             /\ result'.id \in DOMAIN evaluations'
             /\ round_num' = 3
             /\ \A i \in DOMAIN agents : calls'.evaluate_proposal[i] = 3
             /\ calls'.synthesize_proposal = 2
       /\ Returned]_vars

\* C10 happens: a run that could have made a fourth round stopped in round 3
\* on the oracle's judgment
C10_Witness ==
    /\ outcome = "PARETO_STOP"
    /\ current_round = 3
    /\ max_rounds >= 4
    /\ should_continue.by = "oracle"
    /\ result = proposals[3]

\* C11: when the side payments of a proposal produced by synthesis make some
\* registered payer pay more than its budget, run_negotiation ends in
\* ABORTED_BUDGET: it returns None, no further round is evaluated, and the
\* amounts recorded in the posted proposal are the amounts synthesis
\* proposed, neither clamped nor reduced.
C11_OverBudgetAborts ==
    [][pc = "synthesize" =>
          \A response \in SynthesisResponses :
              (/\ response.status = StatusOk
               /\ response.base_project
               /\ \E i \in 1..Len(agents) :
                     ProposedTotal(response.side_payments, agents[i].name)
                        > agents[i].max_side_payment_budget
               /\ Synthesize(response))
                => /\ pc' = "done"
                   /\ outcome' = "ABORTED_BUDGET"
                   /\ result' = None
                   /\ \A a \in AgentNames, b \in AgentNames :
                         PaidTo(proposals'[Len(proposals')].side_payments,
                                a, b)
                            = ProposedFlow(response.side_payments, a, b)
      ]_vars

\* C13: run_negotiation returns None on every abort path (regression,
\* budget, exhaustion) and a proposal on both success paths; a proposal it
\* returns is the latest proposal of the board and the one the final
\* round evaluated.
C13_ReturnValue ==
    pc = "done" =>
      /\ outcome \in {"ABORTED_REGRESSION", "ABORTED_BUDGET", "EXHAUSTED"}
            => result = None
      /\ outcome \in {"SUCCESS", "PARETO_STOP"}
            => /\ result # None
               /\ result = proposals[Len(proposals)]
               /\ result.id = current_round - 1
               /\ result.id \in DOMAIN evaluations
               /\ \E a \in DOMAIN evaluations[result.id] :
                     evaluations[result.id][a].proposal_id = result.id
               /\ \A i \in 1..Len(agents) :
                     calls.evaluate_proposal[i] = current_round

\* C13 happens: a run succeeds in its second round and returns the proposal
\* synthesis posted after the first
C13_Witness ==
    /\ pc = "done"
    /\ outcome = "SUCCESS"
    /\ current_round = 2
    /\ Len(proposals) = 2
    /\ result = proposals[2]
    /\ seen.stop = FALSE

\* some evaluate_proposal call of the round under way has failed
EvaluationFailed == \E i \in DOMAIN workers : workers[i].pc = "raised"

\* C14: when the evaluation of any agent fails (the oracle's transport
\* fails, or the response has no parseable score or explanation), the
\* failure leaves run_negotiation as an error, not as a None result, and in
\* that round there is no continuation judgment, no synthesis and no new
\* proposal.
C14_EvaluationFailurePropagates ==
    [][/\ Returned
       /\ EvaluationFailed =>
          /\ pc = "evaluating"
          /\ calls.should_continue_negotiation = current_round - 1
          /\ calls.synthesize_proposal = current_round - 1
          /\ Len(proposals) = current_round
          /\ calls'.should_continue_negotiation
                = calls.should_continue_negotiation
          /\ calls'.synthesize_proposal = calls.synthesize_proposal
          /\ proposals' = proposals
          /\ pc' # "evaluating" => pc' = "done" /\ outcome' = "RAISED"
      ]_vars

\* C14 happens: in the second round one evaluation failed while another was
\* recorded, and the run ended with the error
C14_Witness ==
    /\ pc = "done"
    /\ outcome = "RAISED"
    /\ should_continue = None
    /\ current_round = 2
    /\ \E i \in 1..Len(agents) : calls.evaluate_proposal[i] = 2
    /\ \E a \in AgentNames : Recorded(evaluations, 1, a) # None
    /\ calls.should_continue_negotiation = 1
    /\ Len(proposals) = 2

\* the board holds, for the proposal under negotiation, a score below 4, so
\* that should_continue_negotiation consults the oracle
SomeoneUnsatisfied ==
    \E a \in AgentNames :
        /\ Recorded(evaluations, current_proposal.id, a) # None
        /\ Recorded(evaluations, current_proposal.id, a).satisfaction_score < 4

\* the continuation response lacks one of the three tags or its
\* should_continue is not a boolean
Unparseable(content) ==
    \/ \E tag \in {"should_continue", "reasoning", "recommendation"} :
          tag \notin DOMAIN content
    \/ content["should_continue"]
          \notin {"true", "True", "false", "False", "yes", "no", "1", "0"}

\* C15: when the response of the oracle to the continuation request cannot
\* be parsed (should_continue, reasoning or recommendation missing, or
\* should_continue not a boolean), should_continue_negotiation answers
\* "continue", so that the run does not end as a Pareto stop on it.
C15_ParseFailureContinues ==
    [][(pc = "judge" /\ SomeoneUnsatisfied) =>
          \A response \in JudgeResponses :
              (/\ response.status = StatusOk
               /\ Unparseable(response.content)
               /\ Judge(response))
                => /\ should_continue'.continue
                   /\ ~should_continue'.raised
                   /\ outcome' = "running"
                   /\ pc' = "synthesize"
      ]_vars

\* C15 happens: the continuation response did not parse and the run goes on
\* to synthesis
C15_Witness ==
    /\ should_continue # None
    /\ should_continue.by = "default"
    /\ pc = "synthesize"
    /\ SomeoneUnsatisfied

\* C16: a transport error of the oracle during the continuation judgment
\* or during synthesis is neither swallowed nor turned into a default
\* decision: it ends run_negotiation with the error, and no proposal is
\* posted in that round.
C16_TransportErrorPropagates ==
    [][/\ (pc = "judge" /\ SomeoneUnsatisfied) =>
            \A response \in JudgeResponses :
                (response.status # StatusOk /\ Judge(response))
                  => /\ pc' = "done"
                     /\ outcome' = "RAISED"
                     /\ proposals' = proposals
                     /\ Len(proposals) = current_round
       /\ pc = "synthesize" =>
            \A response \in SynthesisResponses :
                (response.status # StatusOk /\ Synthesize(response))
                  => /\ pc' = "done"
                     /\ outcome' = "RAISED"
                     /\ proposals' = proposals
                     /\ Len(proposals) = current_round
       /\ Returned
      ]_vars

\* C16 happens: the oracle failed during the continuation judgment of the
\* second round and the run ended with the error
C16_Witness ==
    /\ pc = "done"
    /\ outcome = "RAISED"
    /\ should_continue # None
    /\ should_continue.raised
    /\ current_round = 2
    /\ Len(proposals) = 2

\* C17: in every round, should_continue_negotiation and synthesize_proposal
\* start only after every evaluate_proposal call submitted in the round has
\* completed, whatever the interleaving of the evaluation threads.
C17_EvaluationBarrier ==
    [][/\ CollectStep =>
            \A i \in DOMAIN workers :
                /\ workers[i].pc \in {"returned", "raised"}
                /\ calls.evaluate_proposal[i] = current_round
       /\ (\/ calls'.should_continue_negotiation
                # calls.should_continue_negotiation
           \/ calls'.synthesize_proposal # calls.synthesize_proposal) =>
            \A i \in DOMAIN workers :
                /\ workers[i].pc = "idle"
                /\ calls.evaluate_proposal[i] = current_round
      ]_vars

\* C17 happens: with three agents, the second round's evaluations have all
\* completed and synthesis is about to start
C17_Witness ==
    /\ pc = "synthesize"
    /\ Len(agents) = 3
    /\ current_round = 2
    /\ calls.should_continue_negotiation = 2
    /\ \A i \in DOMAIN workers :
          /\ workers[i].pc = "idle"
          /\ calls.evaluate_proposal[i] = 2

\* C18: under every interleaving of the post_evaluation calls of a round
\* (the membership test, the creation of the proposal's dict, the insert),
\* once every call has completed the board holds, for the proposal under
\* negotiation, the evaluation of every agent whose evaluate_proposal
\* returned: no writer destroys the evaluation of another.
C18_NoEvaluationLost ==
    (pc = "evaluating" /\ AllCompleted(workers)) =>
        \A i \in DOMAIN workers :
            workers[i].pc = "returned" =>
                LET recorded == Recorded(evaluations, current_proposal.id,
                                         agents[i].name)
                IN  /\ recorded # None
                    /\ recorded.satisfaction_score = workers[i].score

\* C19: every evaluation recorded on the board has a satisfaction_score
\* that is an integer from 1 to 5, whatever integer the oracle writes in
\* the satisfaction_score tag.
C19_ScoreInRange ==
    \A a \in AgentNames :
        Recorded(evaluations, 0, a) # None
          => Recorded(evaluations, 0, a).satisfaction_score \in 1..5

\* the side_payment_interest section of a content, empty when it has none
InterestOf(content) ==
    IF "side_payment_interest" \in DOMAIN content
    THEN content["side_payment_interest"]
    ELSE <<>>

\* the field is present in the section with a text that reads as true
ReadsTrue(section, field) ==
    /\ field \in DOMAIN section
    /\ section[field] \in {"true", "True", "yes", "1"}

\* C20: when the response has a valid score and an explanation but its
\* bargaining-signal section, or any field of it, is absent or does not
\* parse, evaluate_proposal still succeeds and posts an evaluation with
\* the default (False, the empty text) for every missing or unparseable
\* signal and the parsed value for every present one.
C20_SignalsDefault ==
    (/\ last_call.op = "evaluate_proposal"
     /\ last_call.arg.status = StatusOk
     /\ {"satisfaction_score", "explanation"}
            \subseteq DOMAIN last_call.arg.content
     /\ last_call.arg.content["satisfaction_score"] \in ScoreTexts)
      => LET section == InterestOf(last_call.arg.content)
             posted == Recorded(evaluations, 0, last_call.old)
         IN  /\ last_call.ret # None
             /\ posted = last_call.ret
             /\ posted.willing_to_accept_payment
                   = ReadsTrue(section, "willing_to_accept")
             /\ posted.willing_to_pay = ReadsTrue(section, "willing_to_pay")
             /\ posted.willingness_to_pay_estimate
                   = IF "willingness_to_pay_estimate" \in DOMAIN section
                     THEN section["willingness_to_pay_estimate"]
                     ELSE ""

\* C20 happens: an evaluation was posted from a response whose section has
\* a willing_to_pay that parses, a willing_to_accept that does not and no
\* estimate, after another was posted from a response with no section
C20_Witness ==
    /\ last_call.op = "evaluate_proposal"
    /\ last_call.arg.status = StatusOk
    /\ DOMAIN InterestOf(last_call.arg.content)
          = {"willing_to_accept", "willing_to_pay"}
    /\ InterestOf(last_call.arg.content)["willing_to_accept"] = "maybe"
    /\ last_call.ret # None
    /\ last_call.ret.willing_to_pay
    /\ ~last_call.ret.willing_to_accept_payment
    /\ last_call.ret.willingness_to_pay_estimate = ""
    /\ \E a \in AgentNames \ {last_call.old} :
          /\ Recorded(evaluations, 0, a) # None
          /\ ~Recorded(evaluations, 0, a).willing_to_pay

\* the response lacks the score or the explanation, or its score is no
\* integer
LacksRequired(content) ==
    \/ "satisfaction_score" \notin DOMAIN content
    \/ "explanation" \notin DOMAIN content
    \/ content["satisfaction_score"] \notin ScoreTexts

\* C21: when the response of the oracle lacks the score or the explanation,
\* or its score is not an integer, evaluate_proposal fails with an error and
\* leaves the board as it was: no evaluation is posted or replaced.
C21_ParseFailureLeavesBoard ==
    [][(/\ last_call'.op = "evaluate_proposal"
        /\ last_call'.arg.status = StatusOk
        /\ LacksRequired(last_call'.arg.content))
          => /\ last_call'.ret = None
             /\ UNCHANGED <<proposals, evaluations, current_round>>
      ]_vars

\* C21 happens: a call failed on a response without explanation while the
\* board held an earlier evaluation of the same agent, which is still there
C21_Witness ==
    /\ last_call.op = "evaluate_proposal"
    /\ last_call.ret = None
    /\ last_call.arg.status = StatusOk
    /\ DOMAIN last_call.arg.content = {"satisfaction_score"}
    /\ Recorded(evaluations, 0, last_call.old) # None

\* C22: the board is append/replace-only throughout a run: the list of
\* proposals only grows at its end and a posted proposal never changes, and
\* a key (proposal_id, agent_name) that has an evaluation keeps one in
\* every later state, also while evaluations are posted concurrently.
C22_AppendReplaceOnly ==
    [][/\ Len(proposals') >= Len(proposals)
       /\ \A i \in 1..Len(proposals) : proposals'[i] = proposals[i]
       /\ \A pid \in DOMAIN evaluations, a \in AgentNames :
             Recorded(evaluations, pid, a) # None
               => Recorded(evaluations', pid, a) # None
      ]_vars

\* the updates among the messages sent, in the order sent
SentUpdates == SelectSeq(sent, LAMBDA m : m.type = "update")

\* C23: run_negotiation accepts the optional on_update sink and calls it
\* after every evaluation posted, every round average computed and every
\* new proposal posted, and exactly once, as the last event of the run,
\* with the terminal outcome: when the run started by the handler is over,
\* the call has not been refused and the last event the sink was given is
\* the terminal one.
C23_SinkNotified ==
    TaskDone(task) =>
        /\ task # "raised"
        /\ notified # <<>>
        /\ notified[Len(notified)].type \in {"complete", "failed"}

\* C24: every negotiation started over /ws/negotiate ends with the client
\* receiving a terminal message of type complete or failed, which tells a
\* successful outcome from a failed one: when the handler has closed the
\* connection of a client that stayed, such a message has been sent.
C24_TerminalMessage ==
    (ws_pc = "closed" /\ connected /\ task # "none") =>
        \E i \in DOMAIN sent : sent[i].type \in {"complete", "failed"}

\* C25: the streaming loop sends the updates to the client in the order in
\* which on_update queued them, however many are pending in one pass.
C25_SentInOrder ==
    \A i \in DOMAIN SentUpdates, j \in DOMAIN SentUpdates :
        i < j => SentUpdates[i].seq < SentUpdates[j].seq

\* the proposer's score among the scores collected: the last of all_scores
ProposerScore == all_scores[Len(all_scores)]

\* the proposer's evaluation of the proposal under negotiation is on the board
ProposerRecorded ==
    /\ current_proposal # None
    /\ current_proposal.id \in DOMAIN evaluations
    /\ agents[1].name \in DOMAIN evaluations[current_proposal.id]

\* C26: the proposer's score counts like any other agent's.  The scores of a
\* round are one per agent, the proposer's among them, and the average kept
\* for the regression test is taken over all of them; a run that ended in
\* SUCCESS had a proposer's score of at least 4, on the board too where its
\* evaluation is recorded; and a run ends in ABORTED_REGRESSION only when
\* the regression test of the round fired, so that a proposer below 4 with
\* no such drop sends the round on to the continuation judgment.
C26_ProposerCounts ==
    /\ all_scores # <<>> => Len(all_scores) = Len(agents)
    /\ pc = "judge" =>
          prev_avg_satisfaction = PyAvg(SumSeq(all_scores), Len(agents))
    /\ outcome = "SUCCESS" =>
          /\ ProposerScore >= 4
          /\ ProposerRecorded =>
                evaluations[result.id][agents[1].name].satisfaction_score >= 4
    /\ outcome = "ABORTED_REGRESSION" =>
          /\ current_round > 1
          /\ FloatDropAboveTolerance(prev_avg_satisfaction,
                 PyAvg(SumSeq(all_scores), Len(all_scores)))
    /\ (/\ pc # "done"
        /\ all_scores # <<>>
        /\ ProposerScore < 4
        /\ calls.should_continue_negotiation = current_round - 1)
          => pc = "judge"


\* C26 happens: in a later round the proposer alone scored below 4, and the
\* run went on to the continuation judgment
C26_Witness ==
    /\ pc = "judge"
    /\ current_round >= 2
    /\ ProposerScore < 4
    /\ \A i \in 1..(Len(all_scores) - 1) : all_scores[i] >= 4
    /\ ProposerRecorded

\* C27: the regression test does not fire in the first round: whatever the
\* scores of round 1, the run does not end in ABORTED_REGRESSION there; it
\* ends in SUCCESS or goes on to the continuation judgment.
C27_NoRegressionInRoundOne ==
    current_round = 1 =>
        /\ outcome # "ABORTED_REGRESSION"
        /\ ~seen.regression
        /\ all_scores # <<>> =>
              IF EveryScoreAtLeast4(all_scores)
              THEN outcome = "SUCCESS"
              ELSE outcome \in {"running", "PARETO_STOP", "RAISED",
                                "ABORTED_BUDGET", "EXHAUSTED"}


\* C27 happens: the scores of round 1 were the lowest there are, and the run
\* went on
C27_Witness ==
    /\ current_round = 1
    /\ pc = "judge"
    /\ \A i \in DOMAIN all_scores : all_scores[i] = 3

\* C28: a drop of the average of at most 0.2 from one round to the next, a
\* drop of exactly 0.2 included (five agents whose scores sum to 20, then to
\* 19), does not end the run in ABORTED_REGRESSION; only a drop above 0.2
\* does: the regression test is true exactly when the previous average
\* minus the average is more than one fifth.
C28_ToleranceExact ==
    last_call.op = "regression" =>
        (last_call.ret <=> DropAboveTolerance(last_call.old, last_call.arg))

\* every agent's evaluate_proposal call of the round has been made
RoundEvaluated ==
    \A i \in DOMAIN agents : calls.evaluate_proposal[i] = current_round

\* C29: in a round the evaluations come first, then the continuation
\* judgment, then the synthesis.  should_continue_negotiation is called only
\* once the round's scores are collected and some of them is below 4, at
\* most once a round; synthesize_proposal is called only after the judgment
\* of the same round returned continue = True, and at most once a round.
C29_RoundOrder ==
    /\ calls.should_continue_negotiation
          \in {current_round - 1, current_round}

    /\ calls.synthesize_proposal
          \in {calls.should_continue_negotiation - 1,
               calls.should_continue_negotiation}
    /\ pc = "judge" =>
          /\ RoundEvaluated
          /\ calls.should_continue_negotiation = current_round - 1
    /\ (current_round >= 1
          /\ calls.should_continue_negotiation = current_round) =>
          /\ RoundEvaluated
          /\ all_scores # <<>>
          /\ \E i \in DOMAIN all_scores : all_scores[i] < 4
    /\ pc = "synthesize" =>
          calls.synthesize_proposal = current_round - 1
    /\ ((current_round >= 1 /\ calls.synthesize_proposal = current_round)
          \/ pc = "synthesize") =>
          /\ calls.should_continue_negotiation = current_round
          /\ should_continue # None
          /\ ~should_continue.raised
          /\ should_continue.continue

\* C29 happens: in a later round the oracle judged that the negotiation
\* continue, and the synthesis of the round has been made
C29_Witness ==
    /\ current_round >= 2
    /\ pc = "loop"
    /\ calls.synthesize_proposal = current_round
    /\ should_continue.by = "oracle"

\* C30: synthesize_proposal and should_continue_negotiation leave the board
\* as it is, and within a run a proposal comes onto the board only through
\* the driver's post_proposal: the judgment changes nothing of proposals,
\* evaluations and current_round; the synthesis step changes neither
\* evaluations nor current_round, and either posts nothing (synthesis
\* raised) or appends the one proposal the driver posts, by the developer,
\* which becomes the proposal under negotiation; and at no other step after
\* the opening proposal do the proposals change.
C30_OnlyDriverPosts ==
    [][/\ pc = "judge" => UNCHANGED board
       /\ pc = "synthesize" =>
             /\ UNCHANGED <<evaluations, current_round>>
             /\ calls'.synthesize_proposal = calls.synthesize_proposal + 1
             /\ \/ proposals' = proposals /\ outcome' = "RAISED"
                \/ /\ Len(proposals') = Len(proposals) + 1
                   /\ SubSeq(proposals', 1, Len(proposals)) = proposals
                   /\ proposals'[Len(proposals')].author = agents[1].name
                   /\ proposals'[Len(proposals')].id = Len(proposals)
                   /\ current_proposal' = proposals'[Len(proposals')]
       /\ pc \notin {"start", "synthesize"} => proposals' = proposals]_vars

\* C30 happens: two judgments and two syntheses have been made, and the
\* board has the opening proposal and the two the driver posted
C30_Witness ==
    /\ calls.should_continue_negotiation >= 2
    /\ calls.synthesize_proposal = 2
    /\ Len(proposals) = 3
    /\ pc = "loop"

\* the (from, to) pairs of the entries whose amount float() accepts
CoerciblePairs(entries) ==
    {<<entries[i].from, entries[i].to>> :
        i \in {j \in DOMAIN entries : IsNumeric(entries[j].amount)}}

\* C31: post_proposal does not fail on a side_payments entry whose amount
\* cannot be coerced to a number: it appends exactly one proposal, leaves
\* the earlier ones as they are, skips exactly the entries with such an
\* amount, and records every entry with a coercible amount (the amount the
\* proposal holds for the entry's pair is the entry's amount).
C31_SkipsBadAmounts ==
    [][\A author \in Authors, proposal_data \in ProposalData :
          (PostProposal(author, proposal_data)
             /\ "side_payments" \in DOMAIN proposal_data)
            => LET posted  == proposals'[Len(proposals')].side_payments
                   entries == proposal_data.side_payments
               IN  /\ Len(proposals') = Len(proposals) + 1
                   /\ SubSeq(proposals', 1, Len(proposals)) = proposals
                   /\ last_call'.ret = Len(proposals)
                   /\ DOMAIN posted = CoerciblePairs(entries)
                   /\ \A i \in DOMAIN entries :
                         IsNumeric(entries[i].amount) =>
                            posted[<<entries[i].from, entries[i].to>>]
                               = ToFloat(entries[i].amount)
      ]_vars

\* the agents that pay in a dict of side payments
Payers(side_payments) == {k[1] : k \in DOMAIN side_payments}

\* C32: validate_side_payments returns false if and only if some payer that
\* is registered in the agents mapping pays in all strictly more than its
\* budget; the payments of a payer that is not registered never make the
\* result false, whatever their amount: the result is the same as for the
\* proposal without them, and true when no payer is registered.
C32_RegisteredPayersOnly ==
    \A i \in 1..Len(proposals), agents_dict \in AgentsDicts :
        LET side_payments == proposals[i].side_payments
            valid == validate_side_payments(proposals[i], agents_dict)
            known == [k \in {p \in DOMAIN side_payments :
                                p[1] \in DOMAIN agents_dict}
                         |-> side_payments[k]]
        IN  /\ ~valid <=> \E a \in DOMAIN agents_dict :
                             PayerTotal(side_payments, a) > agents_dict[a]
            /\ valid <=> validate_side_payments(
                             [proposals[i] EXCEPT !.side_payments = known],
                             agents_dict)
            /\ Payers(side_payments) \cap DOMAIN agents_dict = {} => valid

\* C32 happens: a proposal in which an agent pays more than every budget
\* there is passes when that agent is not registered, also next to a
\* registered agent, and fails when it is registered
C32_Witness ==
    \E i \in 1..Len(proposals) :
        LET side_payments == proposals[i].side_payments
        IN  /\ PayerTotal(side_payments, "Healthcare_Worker") = 4
            /\ \A budget \in Budgets : budget < 4
            /\ validate_side_payments(proposals[i], EmptyDict)
            /\ validate_side_payments(proposals[i],
                   [a \in {"Business_Owner"} |-> 0])
            /\ ~validate_side_payments(proposals[i],
                   [a \in {"Healthcare_Worker"} |-> 3])

\* the evaluate_proposal call of agent i is under way
Evaluating(i) == workers[i].pc \in {"submitted", "create", "insert"}

\* C33: within a round no two concurrent evaluation writers target the same
\* (proposal_id, agent_name) key of the board, for every set of agents built
\* for a run, those built from a client's participant name included: two
\* evaluate_proposal calls under way at once are by agents of different
\* names.
C33_WritersHaveDistinctKeys ==
    pc = "evaluating" =>
        \A i, j \in DOMAIN workers :
            (i # j /\ Evaluating(i) /\ Evaluating(j))
                => agents[i].name # agents[j].name

TerminalOutcomes == {"SUCCESS", "PARETO_STOP", "ABORTED_REGRESSION",
                     "ABORTED_BUDGET", "EXHAUSTED"}

\* C34: when every oracle call returns or fails, run_negotiation ends,
\* whatever max_rounds: it reaches one of the terminal outcomes or raises,
\* and it makes at most max_rounds evaluation rounds (no agent evaluates
\* more than max_rounds times, and the loop begins no more than max_rounds
\* iterations).
C34_Terminates ==
    /\ <>(pc = "done")
    /\ [](pc = "done" => outcome \in TerminalOutcomes \cup {"RAISED"})
    /\ [](/\ round_num <= max_rounds
          /\ current_round <= max_rounds
          /\ \A i \in DOMAIN agents : calls.evaluate_proposal[i] <= max_rounds)

\* C34 happens: a run of three rounds went through three evaluations, three
\* judgments and three syntheses, and ended
C34_Witness ==
    /\ pc = "done"
    /\ max_rounds = 3
    /\ round_num = 3
    /\ calls.should_continue_negotiation = 3
    /\ calls.synthesize_proposal = 3
    /\ outcome \in TerminalOutcomes

\* C35: in a run on a new board, when the evaluation phase of round r is
\* under way (1 <= r <= max_rounds) the board's current_round is r, the
\* board holds exactly r proposals, the proposal being evaluated is the
\* latest one, with id r - 1 and round field r - 1, and every proposal on
\* the board is by the proposer; current_round never exceeds max_rounds.
C35_RoundBookkeeping ==
    /\ current_round <= max_rounds
    /\ pc = "evaluating" =>
          /\ current_round = round_num
          /\ current_round >= 1
          /\ Len(proposals) = current_round
          /\ current_proposal = proposals[Len(proposals)]
          /\ current_proposal.id = current_round - 1
          /\ current_proposal.round = current_round - 1
          /\ \A i \in 1..Len(proposals) :
                /\ proposals[i].author = agents[1].name
                /\ proposals[i].id = i - 1
                /\ proposals[i].round = i - 1

\* C35 happens: the evaluation phase of the third round is under way
C35_Witness ==
    /\ pc = "evaluating"
    /\ current_round = 3
    /\ Len(proposals) = 3
    /\ \E i \in DOMAIN workers : workers[i].pc = "insert"

\* the agent registered under a name: the last of the run's agents with it
RegisteredAs(name) ==
    agents[CHOOSE i \in DOMAIN agents :
              /\ agents[i].name = name
              /\ \A j \in DOMAIN agents : agents[j].name = name => j <= i]

\* C36: every proposal run_negotiation returns passes the budget check: for
\* every registered agent, the side payments it pays in the returned
\* proposal add up to at most its max_side_payment_budget.
C36_ReturnedWithinBudget ==
    (pc = "done" /\ result # None) =>
        \A name \in {agents[i].name : i \in DOMAIN agents} :
            PayerTotal(result.side_payments, name)
                <= RegisteredAs(name).max_side_payment_budget

\* C36 happens: the run returned a synthesized proposal in which an agent
\* pays, within its budget
C36_Witness ==
    /\ pc = "done"
    /\ result # None
    /\ result.id >= 1
    /\ PayerTotal(result.side_payments, "Healthcare_Worker") = 2
    /\ seen.over_budget = FALSE

\* C37: run_negotiation ends in PARETO_STOP only when the oracle's response
\* to the continuation request of that round parsed as should_continue =
\* false; the answers should_continue_negotiation gives without the oracle
\* (no feedback on the board, no unsatisfied agent on the board) decide no
\* run, under every interleaving of the round's evaluations.
C37_OnlyOracleStops ==
    /\ outcome = "PARETO_STOP" =>
          /\ should_continue # None
          /\ should_continue.by = "oracle"
          /\ ~should_continue.continue
    /\ should_continue # None =>
          should_continue.by \notin {"no feedback", "all satisfied"}

\* the names of the stakeholders and the proposer
AllNames == [i \in DOMAIN agents |-> agents[i].name]

\* C38: the driver's success decision, taken on the scores the workers
\* returned, agrees with the board: when run_negotiation returns a proposal
\* as SUCCESS, check_unanimous_acceptance of its id, the names of all the
\* agents and 4 is true on the board; and when the scores of a round are
\* collected and the round ends neither in SUCCESS nor in
\* ABORTED_REGRESSION, it is false for the proposal evaluated in the round.
C38_SuccessAgreesWithBoard ==
    /\ outcome = "SUCCESS" =>
          check_unanimous_acceptance(evaluations, result.id, AllNames, 4)
    /\ (all_scores # <<>>
          /\ outcome \notin {"SUCCESS", "ABORTED_REGRESSION"}
          /\ calls.synthesize_proposal < current_round) =>
          ~check_unanimous_acceptance(evaluations, current_proposal.id,
                                      AllNames, 4)

\* C39: every update on_update queued during a run is sent to the client
\* before the final result message; the streaming loop drops none, those
\* still pending or queued when the task is seen to be done included: once
\* the handler is past the final result, every update on_update was called
\* with is among the messages sent.
C39_NoUpdateDropped ==
    ws_pc \in {"finally", "closed"} =>
        \A k \in DOMAIN notified :
            \E i \in DOMAIN sent : sent[i] = notified[k]

=============================================================================
